---- MODULE Spec2Model ----
(***************************************************************************)
(* Model of the tag-aware regex engine of xliff-regex-tool                 *)
(* (src/src/regex_engine/regex_processor.py, class RegexProcessor).        *)
(*                                                                         *)
(* Strings are sequences of one-character strings.  Positions are Python   *)
(* positions: 0-based, spans half-open, so Python's s[i:j] is Slice(s,i,j).*)
(* The flags argument is passed through to the regex library unchanged by  *)
(* every method; the model fixes it to 0 (no flags).                       *)
(***************************************************************************)
EXTENDS Integers, Sequences, FiniteSets, TLC

\* ------------------------------------------------------------------------
\* Bounds of the model
\* ------------------------------------------------------------------------

\* Generated texts are concatenations of at most MaxPieces pieces.
MaxPieces == 3

\* max_replacements ranges over 0..MaxRepl.
MaxRepl == 2

\* ------------------------------------------------------------------------
\* Strings
\* ------------------------------------------------------------------------

\* Python's s[i:j] for 0 <= i, j (clamped to the string like Python does).
Slice(s, i, j) == SubSeq(s, i + 1, IF j > Len(s) THEN Len(s) ELSE j)

\* Python's s[i:].
SliceFrom(s, i) == SubSeq(s, i + 1, Len(s))

\* s startswith lit at Python position i.
HasAt(s, i, lit) ==
    /\ i + Len(lit) <= Len(s)
    /\ \A k \in 1..Len(lit) : s[i + k] = lit[k]

RECURSIVE JoinSeparated(_)
\* Variant of Join: ' '.join(parts)
JoinSeparated(parts) ==
    IF parts = <<>> THEN <<>>
    ELSE IF Tail(parts) = <<>> THEN Head(parts)
    ELSE Head(parts) \o <<" ">> \o JoinSeparated(Tail(parts))

RECURSIVE Join(_)
\* ''.join(parts)
Join(parts) == IF parts = <<>> THEN <<>> ELSE Head(parts) \o Join(Tail(parts))

Lower == {"a", "b", "c", "d", "e", "g", "h", "i", "l", "m", "n", "o", "p",
          "q", "r", "s", "t", "u", "w", "x"}
Upper == {"H"}
Letters == Lower \cup Upper
Digits == {"0", "1", "2", "4", "9"}
\* \w of the regex library, restricted to the characters of the model.
WordChars == Letters \cup Digits \cup {"_"}

\* ------------------------------------------------------------------------
\* The regex library (re / regex), as far as the processor uses it.
\*
\* A pattern is its source string.  compile() is the library's parser; the
\* model tabulates it for the patterns the model uses.  A compiled pattern
\* is a sequence of alternatives (a|b), tried in order; an alternative is a
\* sequence of atoms; an atom is a character class with a greedy repeat
\* lo..hi (unb: no upper limit) and the number of the capture group that
\* encloses it (0: none).
\* ------------------------------------------------------------------------

Atom(cls, lo, hi, unb, grp) ==
    [cls |-> cls, lo |-> lo, hi |-> hi, unb |-> unb, grp |-> grp]
One(cls)  == Atom(cls, 1, 1, FALSE, 0)
Plus(cls) == Atom(cls, 1, 1, TRUE, 0)
Star(cls) == Atom(cls, 0, 0, TRUE, 0)
Rep(cls, n) == Atom(cls, n, n, FALSE, 0)
Grp(cls, g) == Atom(cls, 1, 1, FALSE, g)

\* The parse of each pattern source the model uses.
PatternTable ==
    [src \in {"a", "b", "o", "ab", "aa", "a*", "|a", "i>a", "\\w+", "\\d+",
              "(\\w)(\\w)", "19\\d{2}|20\\d{2}", "a{2,1}", "(a"} |->
        CASE src = "a"  -> << <<One({"a"})>> >>
          [] src = "b"  -> << <<One({"b"})>> >>
          [] src = "o"  -> << <<One({"o"})>> >>
          [] src = "ab" -> << <<One({"a"}), One({"b"})>> >>
          [] src = "aa" -> << <<One({"a"}), One({"a"})>> >>
          [] src = "a*" -> << <<Star({"a"})>> >>
          [] src = "|a" -> << <<>>, <<One({"a"})>> >>
          [] src = "i>a" -> << <<One({"i"}), One({">"}), One({"a"})>> >>
          [] src = "\\w+" -> << <<Plus(WordChars)>> >>
          [] src = "\\d+" -> << <<Plus(Digits)>> >>
          [] src = "(\\w)(\\w)" -> << <<Grp(WordChars, 1), Grp(WordChars, 2)>> >>
          [] src = "19\\d{2}|20\\d{2}" ->
                << <<One({"1"}), One({"9"}), Rep(Digits, 2)>>,
                   <<One({"2"}), One({"0"}), Rep(Digits, 2)>> >>
          [] src = "a{2,1}" -> << <<Atom({"a"}, 2, 1, FALSE, 0)>> >>
          [] src = "(a" -> << >> ]

\* The library's diagnostic for a pattern it rejects ("" when it accepts),
\* in the wording of re; the processor passes the wording of either library
\* on as it is.
CompileError(pattern) ==
    CASE pattern = "a{2,1}" -> "min repeat greater than max repeat at position 2"
      [] pattern = "(a" -> "missing ), unterminated subpattern at position 0"
      [] OTHER -> ""

\* regex_module.compile(pattern): the compiled alternatives, or an error.
compile(pattern) ==
    IF CompileError(pattern) # ""
    THEN [ok |-> FALSE, msg |-> CompileError(pattern), alts |-> << >>]
    ELSE [ok |-> TRUE, msg |-> "", alts |-> PatternTable[pattern]]

\* Number of capture groups of a compiled pattern.
NumGroups(alts) ==
    Cardinality({g \in 1..9 : \E i \in 1..Len(alts) :
                     \E k \in 1..Len(alts[i]) : alts[i][k].grp = g})

RECURSIVE RunLen(_, _, _, _)
\* How many consecutive characters of text from pos are in cls, up to cap.
RunLen(cls, text, pos, cap) ==
    IF cap = 0 \/ pos >= Len(text) \/ text[pos + 1] \notin cls THEN 0
    ELSE 1 + RunLen(cls, text, pos + 1, cap - 1)

\* MatchAtoms finds no match.
NoMatch == << >>

\* The library returns None instead of a match object.
None == [start |-> -1, end |-> -1, alt |-> 0, b |-> << >>]

RECURSIVE MatchAtoms(_, _, _, _, _, _)
RECURSIVE TryCount(_, _, _, _, _, _, _)
\* Backtracking match of atoms k.. at pos for a match that began at start.
\* adv: the match must not be empty (the library forbids an empty match at
\* the position where the previous match, itself empty, ended).
\* Result: NoMatch, or the positions where atoms k.. begin followed by the
\* position where the match ends.
MatchAtoms(atoms, k, text, pos, start, adv) ==
    IF k > Len(atoms)
    THEN IF adv /\ pos = start THEN NoMatch ELSE <<pos>>
    ELSE LET a == atoms[k]
             run == RunLen(a.cls, text, pos,
                           IF a.unb THEN Len(text) ELSE a.hi)
         IN IF run < a.lo THEN NoMatch
            ELSE TryCount(atoms, k, text, pos, start, adv, run)

\* Greedy: try the longest repeat c first, then shorter ones down to lo.
TryCount(atoms, k, text, pos, start, adv, c) ==
    LET rest == MatchAtoms(atoms, k + 1, text, pos + c, start, adv)
    IN IF rest # NoMatch THEN <<pos>> \o rest
       ELSE IF c > atoms[k].lo
            THEN TryCount(atoms, k, text, pos, start, adv, c - 1)
            ELSE NoMatch

RECURSIVE MatchAlts(_, _, _, _, _)
\* The first alternative from i on that matches at pos: a match object
\* [start, end, alt, b] (b: atom boundaries of the alternative), or None.
MatchAlts(alts, i, text, pos, adv) ==
    IF i > Len(alts) THEN None
    ELSE LET b == MatchAtoms(alts[i], 1, text, pos, pos, adv)
         IN IF b # NoMatch
            THEN [start |-> pos, end |-> b[Len(b)], alt |-> i, b |-> b]
            ELSE MatchAlts(alts, i + 1, text, pos, adv)

\* regex_module.match(pattern, text): a match anchored at position 0.
match(alts, text) == MatchAlts(alts, 1, text, 0, FALSE)

RECURSIVE Search(_, _, _, _)
\* The leftmost match starting at from or later; adv applies at from only.
Search(alts, text, from, adv) ==
    IF from > Len(text) THEN None
    ELSE LET m == MatchAlts(alts, 1, text, from, adv)
         IN IF m # None THEN m ELSE Search(alts, text, from + 1, FALSE)

RECURSIVE ScanOverlapping(_, _, _, _)
\* Variant of Scan: the scan resumes one position after the start of the
\* match instead of at its end.
ScanOverlapping(alts, text, from, adv) ==
    LET m == Search(alts, text, from, adv)
    IN IF m = None THEN << >>
       ELSE <<m>> \o ScanOverlapping(alts, text, m.start + 1, FALSE)

RECURSIVE Scan(_, _, _, _)
\* The successive non-overlapping matches from position from on.
Scan(alts, text, from, adv) ==
    LET m == Search(alts, text, from, adv)
    IN IF m = None THEN << >>
       ELSE <<m>> \o Scan(alts, text, m.end, m.end = m.start)

\* regex_module.finditer(pattern, text): all matches, in scan order.
finditer(alts, text) == Scan(alts, text, 0, FALSE)

\* match.group(0)
Group0(text, m) == Slice(text, m.start, m.end)

\* match.group(g) for g >= 1; the empty string when the group took no part.
GroupText(alts, text, m, g) ==
    LET atoms == alts[m.alt]
        ks == {k \in 1..Len(atoms) : atoms[k].grp = g}
    IN IF ks = {} THEN << >>
       ELSE LET k == CHOOSE k \in ks : TRUE
            IN Slice(text, m.b[k], m.b[k + 1])

\* ------------------------------------------------------------------------
\* Replacement templates
\* ------------------------------------------------------------------------

DigitVal(c) ==
    CASE c = "0" -> 0 [] c = "1" -> 1 [] c = "2" -> 2 [] c = "4" -> 4
      [] c = "9" -> 9

RECURSIVE DigitRun(_, _)
\* Number of consecutive digits of s from Python position i.
DigitRun(s, i) ==
    IF i >= Len(s) \/ s[i + 1] \notin Digits THEN 0 ELSE 1 + DigitRun(s, i + 1)

RECURSIVE DollarFrom(_, _)
\* The rewrite of s[i:], left to right: "$" followed by digits becomes "\"
\* followed by the same digits.
DollarFrom(s, i) ==
    IF i >= Len(s) THEN << >>
    ELSE IF s[i + 1] = "$" /\ DigitRun(s, i + 1) > 0
         THEN LET n == DigitRun(s, i + 1)
              IN <<"\\">> \o Slice(s, i + 1, i + 1 + n) \o DollarFrom(s, i + 1 + n)
         ELSE <<s[i + 1]>> \o DollarFrom(s, i + 1)

\* re.sub(r'\$(\d+)', r'\\\1', replacement)
DollarToBackslash(replacement) == DollarFrom(replacement, 0)

RECURSIVE TemplateItems(_, _)
\* The library's parse of a replacement template from position i: a backslash
\* followed by a digit 1-9 and at most one more digit is a group reference
\* [ref |-> n]; any other character stands for itself [ref |-> 0, lit |-> c].
\* (The templates of the model hold a backslash only in front of such digits.)
TemplateItems(t, i) ==
    IF i >= Len(t) THEN << >>
    ELSE IF t[i + 1] = "\\" /\ i + 1 < Len(t) /\ t[i + 2] \in Digits \ {"0"}
         THEN IF i + 2 < Len(t) /\ t[i + 3] \in Digits
              THEN <<[ref |-> 10 * DigitVal(t[i + 2]) + DigitVal(t[i + 3]), lit |-> ""]>>
                   \o TemplateItems(t, i + 3)
              ELSE <<[ref |-> DigitVal(t[i + 2]), lit |-> ""]>>
                   \o TemplateItems(t, i + 2)
         ELSE <<[ref |-> 0, lit |-> t[i + 1]]>> \o TemplateItems(t, i + 1)

\* The template names a group the pattern does not have
\* ("invalid group reference"): the library raises before it substitutes.
BadTemplate(alts, t) ==
    LET items == TemplateItems(t, 0)
    IN \E k \in 1..Len(items) : items[k].ref > NumGroups(alts)

RECURSIVE Expand(_, _, _, _, _)
\* match.expand(template): the items from k on, for match m of text.
Expand(items, k, alts, text, m) ==
    IF k > Len(items) THEN << >>
    ELSE (IF items[k].ref = 0 THEN <<items[k].lit>>
          ELSE GroupText(alts, text, m, items[k].ref))
         \o Expand(items, k + 1, alts, text, m)

RECURSIVE SubScan(_, _, _, _, _, _, _, _)
\* The substitution loop of the library from position from on: last is the end
\* of the previous match, made the substitutions made so far, count the most
\* that may be made (0: no limit).
\* Result: [text: the rest of the output, n: substitutions made from here on].
SubScan(alts, items, text, from, adv, last, count, made) ==
    LET m == IF count > 0 /\ made >= count THEN None
             ELSE Search(alts, text, from, adv)
    IN IF m = None THEN [text |-> SliceFrom(text, last), n |-> 0]
       ELSE LET rest == SubScan(alts, items, text, m.end, m.end = m.start, m.end,
                                count, made + 1)
            IN [rest EXCEPT
                  !.text = Slice(text, last, m.start)
                           \o Expand(items, 1, alts, text, m) \o @,
                  !.n = 1 + @]

\* Variant of subn: the count argument is not honoured.
subn_unlimited(alts, repl, text, count) ==
    SubScan(alts, TemplateItems(repl, 0), text, 0, FALSE, 0, 0, 0)

\* regex_module.subn(pattern, repl, text, count): count = 0 means no limit.
subn(alts, repl, text, count) ==
    SubScan(alts, TemplateItems(repl, 0), text, 0, FALSE, 0, count, 0)

\* regex_module.sub(pattern, repl, text, count)
sub(alts, repl, text, count) == subn(alts, repl, text, count).text

\* len(regex_module.findall(pattern, text))
findall_len(alts, text) == Len(finditer(alts, text))

\* ------------------------------------------------------------------------
\* RegexProcessor._extract_text_segments
\* ------------------------------------------------------------------------

RECURSIVE LiteralTagEndOpen(_, _)
\* Variant of LiteralTagEnd: a "<" that nothing closes is a tag up to the
\* next "<" or the end of the text.
LiteralTagEndOpen(text, j) ==
    IF j >= Len(text) THEN Len(text)
    ELSE IF text[j + 1] = ">" THEN j + 1
    ELSE IF text[j + 1] = "<" THEN j
    ELSE LiteralTagEndOpen(text, j + 1)

RECURSIVE LiteralTagEnd(_, _)
\* <[^<>]*> : j scans the body that started after "<"; the end position of the
\* tag, or 0 when a "<" or the end of the text comes before any ">".
LiteralTagEnd(text, j) ==
    IF j >= Len(text) THEN 0
    ELSE IF text[j + 1] = ">" THEN j + 1
    ELSE IF text[j + 1] = "<" THEN 0
    ELSE LiteralTagEnd(text, j + 1)

\* &[a-zA-Z]+; or &#\d+; at p: its length, or 0.
EntityLen(text, p) ==
    IF ~HasAt(text, p, <<"&">>) THEN 0
    ELSE LET r == RunLen(Letters, text, p + 1, Len(text))
             d == IF HasAt(text, p + 1, <<"#">>) THEN DigitRun(text, p + 2) ELSE 0
         IN IF r > 0 /\ HasAt(text, p + 1 + r, <<";">>) THEN r + 2
            ELSE IF d > 0 /\ HasAt(text, p + 2 + d, <<";">>) THEN d + 3
            ELSE 0

\* &(?:amp|quot|lt|gt|#\d+); at p: its length, or 0.
AmpEntityLen(text, p) ==
    IF HasAt(text, p, <<"&", "a", "m", "p", ";">>) THEN 5
    ELSE IF HasAt(text, p, <<"&", "q", "u", "o", "t", ";">>) THEN 6
    ELSE IF HasAt(text, p, <<"&", "l", "t", ";">>) THEN 4
    ELSE IF HasAt(text, p, <<"&", "g", "t", ";">>) THEN 4
    ELSE LET d == IF HasAt(text, p, <<"&", "#">>) THEN DigitRun(text, p + 2) ELSE 0
         IN IF d > 0 /\ HasAt(text, p + 2 + d, <<";">>) THEN d + 3 ELSE 0

RECURSIVE EscapedTagEnd(_, _)
\* (?:[^&]|&[a-zA-Z]+;|&#\d+;)*?&gt; from p (after "&lt;"): the lazy repeat
\* stops at the first "&gt;"; every other item has one parse.  End or 0.
EscapedTagEnd(text, p) ==
    IF HasAt(text, p, <<"&", "g", "t", ";">>) THEN p + 4
    ELSE IF p >= Len(text) THEN 0
    ELSE IF text[p + 1] # "&" THEN EscapedTagEnd(text, p + 1)
    ELSE IF EntityLen(text, p) > 0 THEN EscapedTagEnd(text, p + EntityLen(text, p))
    ELSE 0

RECURSIVE DoubleEscapedTagEnd(_, _)
\* (?:[^&]|&(?:amp|quot|lt|gt|#\d+);)*?&amp;gt; from p (after "&amp;lt;").
DoubleEscapedTagEnd(text, p) ==
    IF HasAt(text, p, <<"&", "a", "m", "p", ";", "g", "t", ";">>) THEN p + 8
    ELSE IF p >= Len(text) THEN 0
    ELSE IF text[p + 1] # "&" THEN DoubleEscapedTagEnd(text, p + 1)
    ELSE IF AmpEntityLen(text, p) > 0
         THEN DoubleEscapedTagEnd(text, p + AmpEntityLen(text, p))
    ELSE 0

\* tag_pattern matched at position i: the end of the tag, or 0 (no tag here).
TagEnd(text, i) ==
    IF HasAt(text, i, <<"<">>) THEN LiteralTagEnd(text, i + 1)
    ELSE IF HasAt(text, i, <<"&", "l", "t", ";">>) THEN EscapedTagEnd(text, i + 4)
    ELSE IF HasAt(text, i, <<"&", "a", "m", "p", ";", "l", "t", ";">>)
         THEN DoubleEscapedTagEnd(text, i + 8)
    ELSE 0

\* "if match.start() > current_pos": the text before a tag becomes a segment.
SegmentBeforeTag(text, current_pos, start) == start > current_pos

\* Variant of TagSpan: the literal is the tag without its delimiters.
TagSpanInner(text, start, end) == <<start, end, Slice(text, start + 1, end - 1)>>

\* "(match.start(), match.end(), match.group(0))"
TagSpan(text, start, end) == <<start, end, Slice(text, start, end)>>

RECURSIVE ExtractLoop(_, _, _, _, _)
\* The loop over re.finditer(tag_pattern, text): i is the scan position.
ExtractLoop(text, i, current_pos, text_segments, tag_positions) ==
    IF i >= Len(text)
    THEN [text_segments |->
              IF current_pos < Len(text)
              THEN Append(text_segments, SliceFrom(text, current_pos))
              ELSE text_segments,
          tag_positions |-> tag_positions]
    ELSE LET e == TagEnd(text, i)
         IN IF e = 0
            THEN ExtractLoop(text, i + 1, current_pos, text_segments, tag_positions)
            ELSE ExtractLoop(text, e, e,
                     IF SegmentBeforeTag(text, current_pos, i)
                     THEN Append(text_segments, Slice(text, current_pos, i))
                     ELSE text_segments,
                     Append(tag_positions, TagSpan(text, i, e)))

\* RegexProcessor._extract_text_segments(text)
_extract_text_segments(text) == ExtractLoop(text, 0, 0, << >>, << >>)

\* ------------------------------------------------------------------------
\* RegexProcessor._map_to_original_position, _reconstruct_text
\* ------------------------------------------------------------------------

\* Variant of Located: the plain position is added whole.
LocatedWithoutOffset(plain_pos, char_count, original_pos) ==
    original_pos + plain_pos

\* "offset = plain_pos - char_count; return original_pos + offset"
Located(plain_pos, char_count, original_pos) ==
    original_pos + (plain_pos - char_count)

RECURSIVE MapLoop(_, _, _, _, _, _)
\* The loop of _map_to_original_position at segment i (1-based here).
MapLoop(plain_pos, text_segments, tag_positions, i, char_count, original_pos) ==
    IF i > Len(text_segments) THEN original_pos
    ELSE IF char_count + Len(text_segments[i]) >= plain_pos
         THEN Located(plain_pos, char_count, original_pos)
         ELSE MapLoop(plain_pos, text_segments, tag_positions, i + 1,
                      char_count + Len(text_segments[i]),
                      original_pos + Len(text_segments[i])
                        + (IF i <= Len(tag_positions)
                           THEN Len(tag_positions[i][3]) ELSE 0))

\* RegexProcessor._map_to_original_position(plain_pos, text_segments, tag_positions)
_map_to_original_position(plain_pos, text_segments, tag_positions) ==
    MapLoop(plain_pos, text_segments, tag_positions, 1, 0, 0)

RECURSIVE ReconstructLoop(_, _, _)
\* The loop of _reconstruct_text at segment i (1-based here).
ReconstructLoop(text_segments, tag_positions, i) ==
    IF i > Len(text_segments) THEN << >>
    ELSE text_segments[i]
         \o (IF i <= Len(tag_positions) THEN tag_positions[i][3] ELSE << >>)
         \o ReconstructLoop(text_segments, tag_positions, i + 1)

\* RegexProcessor._reconstruct_text(text_segments, tag_positions, original_text)
_reconstruct_text(text_segments, tag_positions, original_text) ==
    ReconstructLoop(text_segments, tag_positions, 1)

\* ------------------------------------------------------------------------
\* RegexProcessor.find_in_text
\* ------------------------------------------------------------------------

\* Variant of Vetoed: the exclude pattern is searched for anywhere in the
\* matched text (regex_module.search in place of regex_module.match).
VetoedBySearch(exclude_pattern, scanned, m) ==
    /\ exclude_pattern # ""
    /\ Search(compile(exclude_pattern).alts, Group0(scanned, m), 0, FALSE) # None

\* "exclude_pattern and regex_module.match(exclude_pattern, matched_text)":
\* the match m of scanned is vetoed.  ("" stands for None: both are falsy.)
Vetoed(exclude_pattern, scanned, m) ==
    /\ exclude_pattern # ""
    /\ match(compile(exclude_pattern).alts, Group0(scanned, m)) # None

\* The library raises in the loop over finditer(pattern, scanned): the pattern
\* does not compile, or a match is tested against an exclude pattern that
\* does not compile.
FindRaises(scanned, pattern, exclude_pattern) ==
    \/ ~compile(pattern).ok
    \/ /\ exclude_pattern # ""
       /\ ~compile(exclude_pattern).ok
       /\ finditer(compile(pattern).alts, scanned) # << >>

\* Variant of KeptMatches: the exclude pattern is not applied.
KeptMatchesNoVeto(scanned, pattern, exclude_pattern) ==
    finditer(compile(pattern).alts, scanned)

\* The matches of the scan that the exclude pattern does not veto.
KeptMatches(scanned, pattern, exclude_pattern) ==
    SelectSeq(finditer(compile(pattern).alts, scanned),
              LAMBDA m : ~Vetoed(exclude_pattern, scanned, m))

\* find_in_text(text, pattern, flags, ignore_tags, exclude_pattern):
\* a list of (start, end, matched_text).
find_in_text(text, pattern, ignore_tags, exclude_pattern) ==
    IF ignore_tags
    THEN LET ex == _extract_text_segments(text)
             plain_text == Join(ex.text_segments)
         IN IF FindRaises(plain_text, pattern, exclude_pattern) THEN << >>
            ELSE LET kept == KeptMatches(plain_text, pattern, exclude_pattern)
                 IN [k \in 1..Len(kept) |->
                       << _map_to_original_position(kept[k].start,
                              ex.text_segments, ex.tag_positions),
                          _map_to_original_position(kept[k].end,
                              ex.text_segments, ex.tag_positions),
                          Group0(plain_text, kept[k]) >>]
    ELSE IF FindRaises(text, pattern, exclude_pattern) THEN << >>
         ELSE LET kept == KeptMatches(text, pattern, exclude_pattern)
              IN [k \in 1..Len(kept) |->
                    <<kept[k].start, kept[k].end, Group0(text, kept[k])>>]

\* ------------------------------------------------------------------------
\* RegexProcessor._replace_with_exclude, replace_in_text
\*
\* The loops return records; err: the library raised; performed: how many
\* matches were really replaced, one for each match that a call of sub
\* replaced or that _replace_with_exclude replaced by its substituted form
\* (kept for the properties only, the program does not compute it).
\* ------------------------------------------------------------------------

\* Variant of UnderBudget: off by one, "<=" in place of "<".
UnderBudgetOffByOne(max_count, replacements) ==
    max_count = 0 \/ replacements <= max_count

\* "max_count == 0 or replacements < max_count"
UnderBudget(max_count, replacements) ==
    max_count = 0 \/ replacements < max_count

RECURSIVE ExcludeLoop(_, _, _, _, _, _, _, _, _)
\* The loop of _replace_with_exclude over the matches ms from the k-th on.
ExcludeLoop(text, ms, k, pattern, replacement, exclude_pattern, max_count, last_end, replacements) ==
    IF k > Len(ms)
    THEN [err |-> FALSE, text |-> SliceFrom(text, last_end),
          n |-> replacements, performed |-> 0]
    ELSE LET m == ms[k]
             matched_text == Group0(text, m)
             alts == compile(pattern).alts
         IN IF ~compile(exclude_pattern).ok
            THEN [err |-> TRUE, text |-> << >>, n |-> 0, performed |-> 0]
            ELSE IF match(compile(exclude_pattern).alts, matched_text) # None
            THEN LET rest == ExcludeLoop(text, ms, k + 1, pattern, replacement,
                                 exclude_pattern, max_count, m.end, replacements)
                 IN [rest EXCEPT !.text = Slice(text, last_end, m.end) \o @]
            ELSE IF UnderBudget(max_count, replacements)
            THEN IF BadTemplate(alts, replacement)
                 THEN [err |-> TRUE, text |-> << >>, n |-> 0, performed |-> 0]
                 ELSE LET done == subn(alts, replacement, matched_text, 0)
                          rest == ExcludeLoop(text, ms, k + 1, pattern, replacement,
                                      exclude_pattern, max_count, m.end,
                                      replacements + 1)
                      IN [rest EXCEPT
                            !.text = Slice(text, last_end, m.start) \o done.text \o @,
                            !.performed = 1 + @]
            ELSE LET rest == ExcludeLoop(text, ms, k + 1, pattern, replacement,
                                 exclude_pattern, max_count, m.end, replacements)
                 IN [rest EXCEPT !.text = Slice(text, last_end, m.end) \o @]

\* _replace_with_exclude(text, pattern, replacement, exclude_pattern, flags, max_count)
_replace_with_exclude(text, pattern, replacement, exclude_pattern, max_count) ==
    IF ~compile(pattern).ok
    THEN [err |-> TRUE, text |-> << >>, n |-> 0, performed |-> 0]
    ELSE ExcludeLoop(text, finditer(compile(pattern).alts, text), 1, pattern,
                     replacement, exclude_pattern, max_count, 0, 0)

\* The count the branch "count_limit > 0" reports for a segment:
\* "replacements = count_limit".
LimitedCount(alts, replacement, segment, count_limit) == count_limit

\* One pass of the loop body of replace_in_text over a segment, without an
\* exclude pattern.
ReplaceSegment(segment, pattern, replacement, max_replacements, replacements_made) ==
    LET alts == compile(pattern).alts
        remaining == IF max_replacements > 0
                     THEN max_replacements - replacements_made ELSE 0
        count_limit == IF remaining > 0 THEN remaining ELSE 0
    IN IF ~compile(pattern).ok \/ BadTemplate(alts, replacement)
       THEN [err |-> TRUE, text |-> << >>, n |-> 0, performed |-> 0]
       ELSE IF count_limit > 0
            THEN [err |-> FALSE,
                  text |-> sub(alts, replacement, segment, count_limit),
                  n |-> LimitedCount(alts, replacement, segment, count_limit),
                  performed |-> subn(alts, replacement, segment, count_limit).n]
            ELSE [err |-> FALSE,
                  text |-> sub(alts, replacement, segment, 0),
                  n |-> findall_len(alts, segment),
                  performed |-> subn(alts, replacement, segment, 0).n]

\* Variant of BudgetExhausted: off by one, ">" in place of ">=".
BudgetExhaustedLate(max_replacements, replacements_made) ==
    max_replacements > 0 /\ replacements_made > max_replacements

\* Variant of BudgetExhausted: max_replacements = 0 is not taken as unlimited.
BudgetExhaustedAtZero(max_replacements, replacements_made) ==
    replacements_made >= max_replacements

\* "if max_replacements > 0 and replacements_made >= max_replacements: break"
BudgetExhausted(max_replacements, replacements_made) ==
    max_replacements > 0 /\ replacements_made >= max_replacements

RECURSIVE SegmentLoop(_, _, _, _, _, _, _)
\* The end of one pass of the loop body: r is what the pass made of segment i;
\* the segment is stored and the count added, then the loop goes on.
SegmentStored(text_segments, i, pattern, replacement, exclude_pattern, max_replacements, replacements_made, r) ==
    IF r.err
    THEN [err |-> TRUE, text_segments |-> text_segments,
          replacements_made |-> replacements_made, performed |-> 0]
    ELSE [SegmentLoop([text_segments EXCEPT ![i] = r.text], i + 1,
                      pattern, replacement, exclude_pattern,
                      max_replacements, replacements_made + r.n)
          EXCEPT !.performed = r.performed + @]

\* The loop of replace_in_text over text_segments from the i-th (1-based) on.
SegmentLoop(text_segments, i, pattern, replacement, exclude_pattern, max_replacements, replacements_made) ==
    IF i > Len(text_segments) \/ BudgetExhausted(max_replacements, replacements_made)
    THEN [err |-> FALSE, text_segments |-> text_segments,
          replacements_made |-> replacements_made, performed |-> 0]
    ELSE SegmentStored(text_segments, i, pattern, replacement, exclude_pattern,
             max_replacements, replacements_made,
             IF exclude_pattern # ""
             THEN _replace_with_exclude(text_segments[i], pattern, replacement,
                      exclude_pattern,
                      IF max_replacements > 0
                      THEN max_replacements - replacements_made ELSE 0)
             ELSE ReplaceSegment(text_segments[i], pattern, replacement,
                      max_replacements, replacements_made))

\* The branch "if not ignore_tags" of replace_in_text (replacement normalized).
ReplaceWithTags(text, pattern, replacement, max_replacements) ==
    LET alts == compile(pattern).alts
    IN IF ~compile(pattern).ok \/ BadTemplate(alts, replacement)
       THEN [err |-> TRUE, new_text |-> text, count |-> 0, performed |-> 0,
             text_segments |-> << >>]
       ELSE LET done == subn(alts, replacement, text,
                             IF max_replacements > 0 THEN max_replacements ELSE 0)
                count == findall_len(alts, text)
            IN [err |-> FALSE, new_text |-> done.text,
                count |-> IF max_replacements > 0
                          THEN (IF count < max_replacements
                                THEN count ELSE max_replacements)
                          ELSE count,
                performed |-> done.n, text_segments |-> << >>]

\* Variant of Reconstructed: after an error the segments processed so far
\* are put together and returned.
ReconstructedPartial(text, ex, r) ==
    [err |-> r.err,
     new_text |-> _reconstruct_text(r.text_segments, ex.tag_positions, text),
     count |-> r.replacements_made, performed |-> r.performed,
     text_segments |-> r.text_segments]

\* The end of replace_in_text: r is the outcome of the loop over the segments
\* ex.text_segments of text.
Reconstructed(text, ex, r) ==
    IF r.err
    THEN [err |-> TRUE, new_text |-> text, count |-> 0, performed |-> 0,
          text_segments |-> << >>]
    ELSE [err |-> FALSE,
          new_text |-> _reconstruct_text(r.text_segments, ex.tag_positions, text),
          count |-> r.replacements_made, performed |-> r.performed,
          text_segments |-> r.text_segments]

\* replace_in_text from the extraction on, for the extraction ex of text.
ReplaceExtracted(text, ex, pattern, replacement, max_replacements, exclude_pattern) ==
    Reconstructed(text, ex,
                  SegmentLoop(ex.text_segments, 1, pattern, replacement,
                              exclude_pattern, max_replacements, 0))

\* The branch "preserve tags" of replace_in_text (replacement normalized).
ReplacePreservingTags(text, pattern, replacement, max_replacements, exclude_pattern) ==
    ReplaceExtracted(text, _extract_text_segments(text), pattern, replacement,
                     max_replacements, exclude_pattern)

\* Variant of replace_in_text: the "$n" references are rewritten only on the
\* tag-preserving path.
replace_in_text_raw_with_tags(text, pattern, replacement, ignore_tags, max_replacements, exclude_pattern) ==
    IF ~ignore_tags
    THEN ReplaceWithTags(text, pattern, replacement, max_replacements)
    ELSE ReplacePreservingTags(text, pattern, DollarToBackslash(replacement),
                               max_replacements, exclude_pattern)

\* replace_in_text(text, pattern, replacement, flags, ignore_tags,
\*                 max_replacements, exclude_pattern): (new_text, count), with
\* err (the except branch was taken), performed and the final text_segments
\* kept for the properties.
replace_in_text(text, pattern, replacement, ignore_tags, max_replacements, exclude_pattern) ==
    IF ~ignore_tags
    THEN ReplaceWithTags(text, pattern, DollarToBackslash(replacement),
                         max_replacements)
    ELSE ReplacePreservingTags(text, pattern, DollarToBackslash(replacement),
                               max_replacements, exclude_pattern)

\* Variant of validate_pattern: the diagnostic is replaced by a fixed text.
validate_pattern_fixed_message(pattern) ==
    IF compile(pattern).ok THEN <<TRUE, "">> ELSE <<FALSE, "invalid pattern">>

\* validate_pattern(pattern): (is_valid, error_message)
validate_pattern(pattern) ==
    IF compile(pattern).ok THEN <<TRUE, "">> ELSE <<FALSE, compile(pattern).msg>>

\* ------------------------------------------------------------------------
\* Inputs
\* ------------------------------------------------------------------------

Pieces == { <<"a">>, <<"b">>, <<"<", "i", ">">> }

RECURSIVE PieceTexts(_)
\* The concatenations of at most n pieces.
PieceTexts(n) ==
    IF n = 0 THEN { << >> }
    ELSE PieceTexts(n - 1) \cup {t \o p : t \in PieceTexts(n - 1), p \in Pieces}

SampleTexts ==
    { <<"H", "e", "l", "l", "o", " ", "<", "b", ">", "w", "o", "r", "l", "d", "<", "/", "b", ">", "!">>,
      <<"i", "n", " ", "1", "9", "9", "9", " ", "t", "h", "e", "r", "e", " ", "w", "e", "r", "e", " ", "4", "2", " ", "i", "t", "e", "m", "s">>,
      <<"a", "a", "a", "a">>,
      <<"a", "<", "b">>,
      <<"&", "l", "t", ";", "b", "&", "g", "t", ";", "a">>,
      <<"a", "&", "l", "t", ";", "b">>,
      <<"&", "a", "m", "p", ";", "l", "t", ";", "b", "&", "a", "m", "p", ";", "g", "t", ";", "a">>,
      <<"a", "&", "l", "t", ";", "i", "&", "a", "m", "p", ";", "&", "g", "t", ";">>,
      <<"&", "l", "t", ";", "a", "<", "b", "&", "g", "t", ";">> }

Texts == PieceTexts(MaxPieces) \cup SampleTexts

\* The patterns given to find and replace, and the exclude patterns tried
\* with each ("": no exclude pattern).
Patterns ==
    {"a", "ab", "a*", "|a", "i>a", "o", "\\w+", "\\d+", "(\\w)(\\w)", "a{2,1}"}

ExcludesFor(pattern) ==
    {""} \cup
    CASE pattern = "a" -> {"a", "(a"}
      [] pattern \in {"ab", "|a", "\\w+", "(\\w)(\\w)"} -> {"b"}
      [] pattern = "a*" -> {"aa"}
      [] pattern = "i>a" -> {"\\w+"}
      [] pattern = "\\d+" -> {"19\\d{2}|20\\d{2}"}
      [] OTHER -> {}

\* The replacement templates tried with each pattern.
TemplatesFor(pattern) ==
    { <<"x">> } \cup
    CASE pattern = "a" -> { <<"b">>, <<"$", "1">>, << >> }
      [] pattern = "ab" -> { <<"b">> }
      [] pattern = "o" -> { <<"0">> }
      [] pattern = "(\\w)(\\w)" ->
             { <<"$", "1", "-", "$", "2">>, <<"\\", "1", "-", "\\", "2">>,
               <<"$", "2", "$", "1">> }
      [] OTHER -> {}

FindCalls ==
    UNION { { [op |-> "find", text |-> t, pattern |-> p, replacement |-> << >>,
               ignore_tags |-> ig, max_replacements |-> 0, exclude_pattern |-> e] :
              t \in Texts, ig \in BOOLEAN, e \in ExcludesFor(p) } : p \in Patterns }

ReplaceCalls ==
    UNION { { [op |-> "replace", text |-> t, pattern |-> p, replacement |-> r,
               ignore_tags |-> ig, max_replacements |-> n, exclude_pattern |-> e] :
              t \in Texts, r \in TemplatesFor(p), ig \in BOOLEAN,
              n \in 0..MaxRepl, e \in ExcludesFor(p) } : p \in Patterns }

ValidateCalls ==
    { [op |-> "validate", text |-> << >>, pattern |-> p, replacement |-> << >>,
       ignore_tags |-> TRUE, max_replacements |-> 0, exclude_pattern |-> ""] :
      p \in DOMAIN PatternTable }

ExtractCalls ==
    { [op |-> "extract", text |-> t, pattern |-> "", replacement |-> << >>,
       ignore_tags |-> TRUE, max_replacements |-> 0, exclude_pattern |-> ""] :
      t \in Texts }

Calls == FindCalls \cup ReplaceCalls \cup ValidateCalls \cup ExtractCalls

\* ------------------------------------------------------------------------
\* The state machine: a processor and one call made on it
\* ------------------------------------------------------------------------

VARIABLES
    regex_module,   \* self.regex_module: the library the processor uses
    matches,        \* self.matches
    call,           \* the call in progress: the method and its arguments
    result          \* what the call returned (done = FALSE: not yet);
                    \* raised: an exception left the method instead

vars == <<regex_module, matches, call, result>>

\* RegexProcessor(): every caller in the repository constructs the processor
\* with the default use_advanced_regex = True.
Init ==
    /\ regex_module = "regex"
    /\ matches = << >>
    /\ call \in Calls
    /\ result = [done |-> FALSE]

\* find_in_text: "except Exception" returns [], nothing reaches the caller.
FindInText ==
    /\ call.op = "find"
    /\ ~result.done
    /\ result' = [done |-> TRUE, raised |-> FALSE,
                  matches |-> find_in_text(call.text, call.pattern,
                                  call.ignore_tags, call.exclude_pattern)]
    /\ UNCHANGED <<regex_module, matches, call>>

\* replace_in_text: "except Exception" returns (text, 0), nothing reaches the
\* caller.
ReplaceInText ==
    /\ call.op = "replace"
    /\ ~result.done
    /\ result' = [done |-> TRUE, raised |-> FALSE] @@
                 replace_in_text(call.text, call.pattern, call.replacement,
                     call.ignore_tags, call.max_replacements, call.exclude_pattern)
    /\ UNCHANGED <<regex_module, matches, call>>

ValidatePattern ==
    /\ call.op = "validate"
    /\ ~result.done
    /\ result' = [done |-> TRUE, ret |-> validate_pattern(call.pattern)]
    /\ UNCHANGED <<regex_module, matches, call>>

ExtractTextSegments ==
    /\ call.op = "extract"
    /\ ~result.done
    /\ result' = [done |-> TRUE] @@ _extract_text_segments(call.text)
    /\ UNCHANGED <<regex_module, matches, call>>

Next == FindInText \/ ReplaceInText \/ ValidatePattern \/ ExtractTextSegments

Spec == Init /\ [][Next]_vars

\* ------------------------------------------------------------------------
\* Properties
\* ------------------------------------------------------------------------

Returned(op) == result.done /\ call.op = op

\* The text run of text in front of tag k + 1 (k = 0: before the first tag;
\* k = number of tags: after the last), read off the tag positions.
RunAt(text, tag_positions, k) ==
    Slice(text,
          IF k = 0 THEN 0 ELSE tag_positions[k][2],
          IF k = Len(tag_positions) THEN Len(text) ELSE tag_positions[k + 1][1])

\* How many of the runs 0..k of text are not empty.
NonEmptyRuns(text, tag_positions, k) ==
    Cardinality({j \in 0..k : RunAt(text, tag_positions, j) # << >>})

RECURSIVE InPlace(_, _, _, _)
\* The text in which every tag of the original stands where it stood: from
\* run k on, each run that is not empty replaced by its segment of segs (the
\* segments are the non-empty runs, in order), each followed by its tag.
InPlace(text, tag_positions, segs, k) ==
    IF k > Len(tag_positions) THEN << >>
    ELSE (IF RunAt(text, tag_positions, k) = << >> THEN << >>
          ELSE segs[NonEmptyRuns(text, tag_positions, k)])
         \o (IF k < Len(tag_positions) THEN tag_positions[k + 1][3] ELSE << >>)
         \o InPlace(text, tag_positions, segs, k + 1)

\* C1: replace_in_text with ignore_tags = true preserves every tag: new_text is
\* the processed segments interleaved with all the tag-span literals of the
\* original, each tag once, verbatim, in order and in its place, also when
\* the text starts with a tag, ends with a tag or has adjacent tags.
C1_TagsPreserved ==
    (Returned("replace") /\ call.ignore_tags /\ ~result.err) =>
        LET ex == _extract_text_segments(call.text)
        IN /\ Len(result.text_segments) = Len(ex.text_segments)
           /\ result.new_text =
                  InPlace(call.text, ex.tag_positions, result.text_segments, 0)

\* C2: reconstruction identity: _reconstruct_text applied to the unmodified
\* output of _extract_text_segments(s) returns exactly s, for every s.
C2_ReconstructionIdentity ==
    Returned("extract") =>
        _reconstruct_text(result.text_segments, result.tag_positions, call.text)
            = call.text

\* [s1, e1) and [s2, e2) have a position in common.
Intersect(s1, e1, s2, e2) ==
    \E x \in 0..(e1 - 1) : s1 <= x /\ s2 <= x /\ x < e2

\* C3: no cross-tag matches: every match (start, end, text) that find_in_text
\* returns with ignore_tags = true has a span [start, end) that shares no
\* position with any extracted tag span.
C3_NoCrossTagMatches ==
    (Returned("find") /\ call.ignore_tags) =>
        LET tags == _extract_text_segments(call.text).tag_positions
        IN \A k \in 1..Len(result.matches) : \A j \in 1..Len(tags) :
              ~Intersect(result.matches[k][1], result.matches[k][2],
                         tags[j][1], tags[j][2])

RECURSIVE PrefixInLanguage(_, _, _, _)
\* Some prefix of s[pos:] is in the language of atoms k..: there is a repeat
\* count for each atom, within its limits, that the characters allow.
PrefixInLanguage(atoms, k, s, pos) ==
    IF k > Len(atoms) THEN TRUE
    ELSE \E c \in atoms[k].lo..(Len(s) - pos) :
            /\ atoms[k].unb \/ c <= atoms[k].hi
            /\ \A j \in 1..c : s[pos + j] \in atoms[k].cls
            /\ PrefixInLanguage(atoms, k + 1, s, pos + c)

\* The exclude pattern matches matched_text anchored at its start.
ExcludeMatchesAtStart(exclude_pattern, matched_text) ==
    \E i \in 1..Len(PatternTable[exclude_pattern]) :
        PrefixInLanguage(PatternTable[exclude_pattern][i], 1, matched_text, 0)

RECURSIVE NotExcluded(_, _, _, _)
\* The sub-sequence, from the k-th on, of the matches ms of scanned whose
\* matched text the exclude pattern does not match at its start.
NotExcluded(ms, k, scanned, exclude_pattern) ==
    IF k > Len(ms) THEN << >>
    ELSE (IF ExcludeMatchesAtStart(exclude_pattern, Group0(scanned, ms[k]))
          THEN << >> ELSE <<ms[k]>>)
         \o NotExcluded(ms, k + 1, scanned, exclude_pattern)

\* The string find_in_text scans: the plain view, or the text itself.
Scanned(text, ignore_tags) ==
    IF ignore_tags THEN Join(_extract_text_segments(text).text_segments) ELSE text

TextOf1999 ==
    <<"i", "n", " ", "1", "9", "9", "9", " ", "t", "h", "e", "r", "e", " ",
      "w", "e", "r", "e", " ", "4", "2", " ", "i", "t", "e", "m", "s">>

\* C4: exclude veto in find: with an exclude pattern, find_in_text returns
\* exactly the sub-sequence, in scan order, of the pattern's non-overlapping
\* matches whose matched text the exclude pattern does not match at its
\* start; nothing else is dropped, added or changed.  Pattern \d+ with exclude
\* 19\d{2}|20\d{2} on 'in 1999 there were 42 items' yields only '42'.
C4_ExcludeVetoInFind ==
    (/\ Returned("find")
     /\ call.exclude_pattern # ""
     /\ CompileError(call.pattern) = ""
     /\ CompileError(call.exclude_pattern) = "") =>
        LET scanned == Scanned(call.text, call.ignore_tags)
            kept == NotExcluded(finditer(PatternTable[call.pattern], scanned), 1,
                                scanned, call.exclude_pattern)
        IN /\ Len(result.matches) = Len(kept)
           /\ \A k \in 1..Len(kept) :
                 /\ result.matches[k][3] = Group0(scanned, kept[k])
                 /\ ~call.ignore_tags =>
                       /\ result.matches[k][1] = kept[k].start
                       /\ result.matches[k][2] = kept[k].end
           /\ (call.text = TextOf1999 /\ call.pattern = "\\d+") =>
                 result.matches = << <<19, 21, <<"4", "2">> >> >>

\* C4 witness: the find of \d+ with the year exclude on the example text has
\* returned; 1999 was vetoed and 42 kept.
C4_Witness ==
    /\ Returned("find")
    /\ call.text = TextOf1999
    /\ call.pattern = "\\d+"
    /\ call.exclude_pattern = "19\\d{2}|20\\d{2}"
    /\ Len(finditer(PatternTable[call.pattern], call.text)) = 2
    /\ Len(result.matches) = 1

\* suffix is a suffix of s.
EndsWith(s, suffix) ==
    /\ Len(suffix) <= Len(s)
    /\ SliceFrom(s, Len(s) - Len(suffix)) = suffix

\* The matches of pattern in scanned that may be replaced: all of them
\* without an exclude pattern, else those it does not match at their start.
Eligible(scanned, pattern, exclude_pattern) ==
    IF exclude_pattern = "" THEN finditer(PatternTable[pattern], scanned)
    ELSE NotExcluded(finditer(PatternTable[pattern], scanned), 1, scanned,
                     exclude_pattern)

RECURSIVE EligibleBefore(_, _, _, _)
\* The number of matches that may be replaced in the segments before the i-th.
EligibleBefore(segs, i, pattern, exclude_pattern) ==
    IF i <= 1 THEN 0
    ELSE EligibleBefore(segs, i - 1, pattern, exclude_pattern)
         + Len(Eligible(segs[i - 1], pattern, exclude_pattern))

\* out is scanned with nothing changed once `left` replaceable matches are
\* behind: what follows the last of them in scanned still ends out.
VerbatimAfter(scanned, out, pattern, exclude_pattern, left) ==
    LET ms == Eligible(scanned, pattern, exclude_pattern)
    IN IF left <= 0 THEN out = scanned
       ELSE Len(ms) >= left => EndsWith(out, SliceFrom(scanned, ms[left].end))

RECURSIVE SumEligible(_, _, _, _)
\* The number of matches that may be replaced in the segments from the i-th on.
SumEligible(segs, i, pattern, exclude_pattern) ==
    IF i > Len(segs) THEN 0
    ELSE Len(Eligible(segs[i], pattern, exclude_pattern))
         + SumEligible(segs, i + 1, pattern, exclude_pattern)

C6_CountAccuracy ==
    (Returned("replace") /\ call.ignore_tags /\ ~result.err) =>
        /\ result.count = result.performed
        /\ result.count > 0 => result.performed > 0

RECURSIVE SumMatches(_, _, _)
\* The number of non-overlapping matches inside the segments from the i-th on.
SumMatches(segs, i, pattern) ==
    IF i > Len(segs) THEN 0
    ELSE Len(finditer(PatternTable[pattern], segs[i])) + SumMatches(segs, i + 1, pattern)

TextOfHello ==
    <<"H", "e", "l", "l", "o", " ", "<", "b", ">", "w", "o", "r", "l", "d",
      "<", "/", "b", ">", "!">>

\* C7: per-segment substitution: with ignore_tags = true, no exclude pattern
\* and max_replacements = 0, each output segment is the library's substitution
\* applied to that input segment alone, and count is the total number of
\* non-overlapping matches inside the individual segments; an occurrence that
\* exists only across a tag boundary is never replaced.  'Hello <b>world</b>!'
\* with pattern o and replacement 0 gives 'Hell0 <b>w0rld</b>!', count 2.
C7_PerSegmentSubstitution ==
    (/\ Returned("replace") /\ ~result.err
     /\ call.ignore_tags /\ call.exclude_pattern = ""
     /\ call.max_replacements = 0) =>
        LET segs == _extract_text_segments(call.text).text_segments
            alts == PatternTable[call.pattern]
        IN /\ Len(result.text_segments) = Len(segs)
           /\ \A i \in 1..Len(segs) :
                 result.text_segments[i] =
                     sub(alts, DollarToBackslash(call.replacement), segs[i], 0)
           /\ result.count = SumMatches(segs, 1, call.pattern)
           /\ (\A i \in 1..Len(segs) : finditer(alts, segs[i]) = << >>) =>
                 /\ result.text_segments = segs
                 /\ result.count = 0
           /\ (/\ call.text = TextOfHello /\ call.pattern = "o"
               /\ call.replacement = <<"0">>) =>
                 /\ result.new_text =
                       <<"H", "e", "l", "l", "0", " ", "<", "b", ">", "w", "0",
                         "r", "l", "d", "<", "/", "b", ">", "!">>
                 /\ result.count = 2

\* C7 witness: the replace of o by 0 in 'Hello <b>world</b>!' has returned
\* with both tags untouched and one o replaced in each of two segments.
C7_Witness ==
    /\ Returned("replace")
    /\ call.text = TextOfHello
    /\ call.pattern = "o"
    /\ call.replacement = <<"0">>
    /\ call.ignore_tags /\ call.exclude_pattern = "" /\ call.max_replacements = 0
    /\ Len(result.text_segments) = 3
    /\ result.count = 2

\* The characters the atoms of a compiled pattern can match.
PatternChars(alts) ==
    UNION { UNION {alts[i][k].cls : k \in 1..Len(alts[i])} : i \in 1..Len(alts) }

\* The replacement is a fixed literal: no backreference, no "$", no "\".
IsLiteral(replacement) ==
    \A k \in 1..Len(replacement) : replacement[k] \notin {"$", "\\"}

\* C8: find/replace consistency: if every match is replaced by a fixed
\* literal that does not match the pattern (replace_in_text with
\* max_replacements = 0), find_in_text with the same pattern and the same
\* ignore_tags on the resulting text returns no match: every occurrence find
\* reports is one that replace replaces.  (Stated for literals none of whose
\* characters the pattern can match, so that no match of the result can be
\* made of the literal and its neighbours.)
C8_FindReplaceConsistency ==
    (/\ Returned("replace") /\ ~result.err
     /\ call.max_replacements = 0 /\ call.exclude_pattern = ""
     /\ IsLiteral(call.replacement)
     /\ \A k \in 1..Len(call.replacement) :
           call.replacement[k] \notin PatternChars(PatternTable[call.pattern])
     /\ find_in_text(call.replacement, call.pattern, call.ignore_tags, "") = << >>) =>
        find_in_text(result.new_text, call.pattern, call.ignore_tags, "") = << >>

\* The templates of the model with every $n written as the library's \n.
NativeForm(replacement) ==
    CASE replacement = <<"$", "1", "-", "$", "2">> -> <<"\\", "1", "-", "\\", "2">>
      [] replacement = <<"$", "2", "$", "1">> -> <<"\\", "2", "\\", "1">>
      [] replacement = <<"$", "1">> -> <<"\\", "1">>
      [] OTHER -> replacement

\* C9: backreference normalization: replace_in_text rewrites every $n of the
\* replacement template to the library's \n before any substitution, for
\* ignore_tags true and false, with and without an exclude pattern: a call
\* returns what the same call with the template in \n form returns, and
\* '$1-$2' with pattern (\w)(\w) on 'ab' yields 'a-b'.
C9_BackreferenceNormalization ==
    Returned("replace") =>
        LET native == replace_in_text(call.text, call.pattern,
                          NativeForm(call.replacement), call.ignore_tags,
                          call.max_replacements, call.exclude_pattern)
        IN /\ result.new_text = native.new_text
           /\ result.count = native.count
           /\ result.err = native.err
           /\ (/\ call.text = <<"a", "b">> /\ call.pattern = "(\\w)(\\w)"
               /\ call.replacement = <<"$", "1", "-", "$", "2">>) =>
                 result.new_text = <<"a", "-", "b">>

\* C9 witness: a replace with the template '$1-$2' and ignore_tags = false has
\* returned 'a-b' for 'ab'.
C9_Witness ==
    /\ Returned("replace")
    /\ ~call.ignore_tags
    /\ call.text = <<"a", "b">>
    /\ call.pattern = "(\\w)(\\w)"
    /\ call.replacement = <<"$", "1", "-", "$", "2">>
    /\ result.new_text = <<"a", "-", "b">>

\* C10: validate_pattern never raises: it returns (True, "") exactly when the
\* pattern compiles, and otherwise (False, msg) with msg the library's
\* diagnostic unmodified; it changes no field of the processor.
C10_ValidatePattern ==
    Returned("validate") =>
        /\ result.ret \in (BOOLEAN \X STRING)
        /\ result.ret = <<TRUE, "">> <=> CompileError(call.pattern) = ""
        /\ ~result.ret[1] => result.ret[2] = CompileError(call.pattern)
        /\ call.pattern \in {"a{2,1}", "(a"} =>
              ~result.ret[1] /\ result.ret[2] # ""
        /\ call.pattern = "(\\w)(\\w)" => result.ret = <<TRUE, "">>
        /\ regex_module = "regex"
        /\ matches = << >>

\* C10 witness: validate_pattern has returned the diagnostic of a pattern
\* that does not compile.
C10_Witness ==
    /\ Returned("validate")
    /\ call.pattern = "a{2,1}"
    /\ result.ret[1] = FALSE
    /\ result.ret[2] # ""

\* C11: find_in_text and replace_in_text, given a pattern that does not
\* compile, fail with the compile error that validate_pattern reports: the
\* error reaches the caller instead of an ordinary result (an empty match
\* list, or (text, 0)) that cannot be told from "no matches".
C11_InvalidPatternFails ==
    (/\ Returned("find") \/ Returned("replace")
     /\ ~validate_pattern(call.pattern)[1]) =>
        result.raised

\* C11 observation: a find with a pattern that validate_pattern rejects has
\* returned the empty list, as a find without matches does.
C11_Witness ==
    /\ Returned("find")
    /\ call.pattern = "a{2,1}"
    /\ call.text = <<"a">>
    /\ validate_pattern(call.pattern)[2] # ""
    /\ ~result.raised
    /\ result.matches = << >>

RECURSIVE Spliced(_, _, _, _, _, _, _)
\* text from position last on, with the matches ms[k..upto] each replaced by
\* the expansion of the template items and everything else copied.
Spliced(text, ms, k, upto, last, items, alts) ==
    IF k > upto THEN SliceFrom(text, last)
    ELSE Slice(text, last, ms[k].start)
         \o Expand(items, 1, alts, text, ms[k])
         \o Spliced(text, ms, k + 1, upto, ms[k].end, items, alts)

\* C12: with ignore_tags = false, replace_in_text returns the library's
\* substitution over the whole original string (bounded by max_replacements
\* when positive) and a count equal to the number of non-overlapping matches
\* of the pattern in the original, capped at max_replacements when that is
\* positive; the count equals the number of substitutions made.
C12_ReplaceWithoutIgnoreTags ==
    (Returned("replace") /\ ~call.ignore_tags /\ ~result.err) =>
        LET alts == PatternTable[call.pattern]
            ms == finditer(alts, call.text)
            n == call.max_replacements
            capped == IF n > 0 /\ n < Len(ms) THEN n ELSE Len(ms)
        IN /\ result.new_text =
                  Spliced(call.text, ms, 1, capped, 0,
                          TemplateItems(DollarToBackslash(call.replacement), 0),
                          alts)
           /\ result.count = capped
           /\ result.count = result.performed

\* C12 witness: a replace with ignore_tags = false and a cap below the number
\* of matches has returned: two of the four matches replaced, count 2.
C12_Witness ==
    /\ Returned("replace")
    /\ ~call.ignore_tags
    /\ call.text = <<"a", "a", "a", "a">>
    /\ call.pattern = "a"
    /\ call.replacement = <<"x">>
    /\ call.max_replacements = 2
    /\ Len(finditer(PatternTable[call.pattern], call.text)) = 4
    /\ result.new_text = <<"x", "x", "a", "a">>
    /\ result.count = 2

\* C13: with ignore_tags = false, find_in_text matches directly against the
\* original string, tags being ordinary characters: every returned
\* (start, end, text) satisfies original[start:end] = text, matches may lie
\* inside or across tags, and the exclude veto applies to them as to any
\* other match.
C13_FindWithoutIgnoreTags ==
    (Returned("find") /\ ~call.ignore_tags) =>
        /\ \A k \in 1..Len(result.matches) :
              Slice(call.text, result.matches[k][1], result.matches[k][2])
                  = result.matches[k][3]
        /\ (CompileError(call.pattern) = ""
            /\ CompileError(call.exclude_pattern) = "") =>
              LET ms == finditer(PatternTable[call.pattern], call.text)
                  kept == IF call.exclude_pattern = "" THEN ms
                          ELSE NotExcluded(ms, 1, call.text, call.exclude_pattern)
              IN result.matches =
                     [k \in 1..Len(kept) |->
                         <<kept[k].start, kept[k].end, Group0(call.text, kept[k])>>]
        /\ (call.text = <<"<", "i", ">", "a">> /\ call.pattern = "i>a") =>
              result.matches =
                  IF call.exclude_pattern = "\\w+" THEN << >>
                  ELSE << <<1, 4, <<"i", ">", "a">> >> >>

\* C13 witness: a find with ignore_tags = false has returned a match that
\* begins inside the tag <i> and ends in the text after it.
C13_Witness ==
    /\ Returned("find")
    /\ ~call.ignore_tags
    /\ call.text = <<"<", "i", ">", "a">>
    /\ call.pattern = "i>a"
    /\ call.exclude_pattern = ""
    /\ _extract_text_segments(call.text).tag_positions = << <<0, 3, <<"<", "i", ">">> >> >>
    /\ result.matches = << <<1, 4, <<"i", ">", "a">> >> >>

\* ------------------------------------------------------------------------
\* Several callers on one shared processor
\*
\* call and result hold one entry for each caller.  A call is entered (its
\* arguments are bound) and later returns; between the two, the calls of the
\* other callers may be entered and may return.
\* ------------------------------------------------------------------------

MaxCallers == 2

Callers == 1..MaxCallers

\* No call in progress.
Idle == [op |-> "idle"]

\* The calls the callers make.
SharedCalls ==
    {k \in FindCalls \cup ReplaceCalls \cup ValidateCalls :
        \/ k.op = "validate" /\ k.pattern \in {"a", "(a"}
        \/ /\ k.op \in {"find", "replace"}
           /\ k.text \in { <<"a", "a">>, <<"a", "<", "i", ">">> }
           /\ k.pattern = "a"
           /\ k.replacement \in { << >>, <<"x">> }
           /\ k.max_replacements = 0
           /\ k.exclude_pattern = ""}

\* What the call k returns: the method applied to the arguments of k.
Outcome(k) ==
    CASE k.op = "find" ->
             [raised |-> FALSE,
              matches |-> find_in_text(k.text, k.pattern, k.ignore_tags,
                                       k.exclude_pattern)]
      [] k.op = "replace" ->
             [raised |-> FALSE] @@
             replace_in_text(k.text, k.pattern, k.replacement, k.ignore_tags,
                             k.max_replacements, k.exclude_pattern)
      [] k.op = "validate" -> [ret |-> validate_pattern(k.pattern)]

SharedInit ==
    /\ regex_module = "regex"
    /\ matches = << >>
    /\ call = [c \in Callers |-> Idle]
    /\ result = [c \in Callers |-> [done |-> FALSE]]

\* Caller c, with no call in progress, enters a method of the processor.
SharedCall(c) ==
    /\ call[c] = Idle \/ result[c].done
    /\ \E k \in SharedCalls : call' = [call EXCEPT ![c] = k]
    /\ result' = [result EXCEPT ![c] = [done |-> FALSE]]
    /\ UNCHANGED <<regex_module, matches>>

\* Variant of SharedReturn: find_in_text keeps its list in self.matches.
SharedReturnStoring(c) ==
    /\ call[c] # Idle
    /\ ~result[c].done
    /\ result' = [result EXCEPT ![c] = [done |-> TRUE] @@ Outcome(call[c])]
    /\ matches' = IF call[c].op = "find" THEN Outcome(call[c]).matches ELSE matches
    /\ UNCHANGED <<regex_module, call>>

\* The method caller c entered runs and returns: it reads self.regex_module,
\* works on local values only and assigns no field.
SharedReturn(c) ==
    /\ call[c] # Idle
    /\ ~result[c].done
    /\ result' = [result EXCEPT ![c] = [done |-> TRUE] @@ Outcome(call[c])]
    /\ UNCHANGED <<regex_module, matches, call>>

SharedNext == \E c \in Callers : SharedCall(c) \/ SharedReturn(c)

SharedSpec == SharedInit /\ [][SharedNext]_vars

\* C14: find_in_text, replace_in_text and validate_pattern never
\* modify a field of the processor (regex_module, matches) nor their
\* arguments, so under any interleaving of the calls several callers make on
\* one shared processor each call returns what it returns when run alone.
C14_NoSharedMutableState ==
    /\ regex_module = "regex"
    /\ matches = << >>
    /\ \A c \in Callers :
          /\ call[c] = Idle \/ call[c] \in SharedCalls
          /\ result[c].done =>
                result[c] = [done |-> TRUE] @@ Outcome(call[c])

\* C14 witness: a find has returned to one caller while the replace another
\* caller entered before it is still in progress.
C14_Witness ==
    \E c, d \in Callers :
        /\ c # d
        /\ call[c] # Idle /\ call[c].op = "find" /\ result[c].done
        /\ result[c].matches # << >>
        /\ call[d] # Idle /\ call[d].op = "replace" /\ ~result[d].done

RECURSIVE SumLen(_, _)
\* The sum of the lengths of the strings of parts from the i-th on.
SumLen(parts, i) ==
    IF i > Len(parts) THEN 0 ELSE Len(parts[i]) + SumLen(parts, i + 1)

RECURSIVE SumTagLen(_, _)
\* The sum of the lengths of the tag-span literals from the i-th on.
SumTagLen(tag_positions, i) ==
    IF i > Len(tag_positions) THEN 0
    ELSE Len(tag_positions[i][3]) + SumTagLen(tag_positions, i + 1)

\* C15: plain-view length: for every input, the plain view find_in_text
\* builds (the extracted segments joined without separators) has length equal
\* to the sum of the segment lengths, and that length plus the total length of
\* all tag-span literals equals the length of the original string.
C15_PlainViewLength ==
    (Returned("extract") \/ (Returned("find") /\ call.ignore_tags)) =>
        LET ex == _extract_text_segments(call.text)
            plain_text == Join(ex.text_segments)
        IN /\ Returned("extract") =>
                 /\ result.text_segments = ex.text_segments
                 /\ result.tag_positions = ex.tag_positions
           /\ Len(plain_text) = SumLen(ex.text_segments, 1)
           /\ Len(plain_text) + SumTagLen(ex.tag_positions, 1) = Len(call.text)

\* C15 witness: the extraction of 'Hello <b>world</b>!' has returned three
\* segments of 12 characters in all and two tags of 7 characters in all.
C15_Witness ==
    /\ Returned("extract")
    /\ call.text = TextOfHello
    /\ Len(result.text_segments) = 3
    /\ Len(result.tag_positions) = 2
    /\ Len(Join(result.text_segments)) = 12
    /\ SumTagLen(result.tag_positions, 1) = 7

\* C16: segment/tag index alignment: extraction emits one (possibly
\* zero-length) segment before every tag span, also before a tag at position 0
\* and between two adjacent tags, so that segment i is immediately followed by
\* tag span i in the original and
\* len(tag_spans) <= len(segments) <= len(tag_spans) + 1; only an empty
\* segment after the last tag is omitted.
C16_SegmentTagAlignment ==
    Returned("extract") =>
        LET segs == result.text_segments
            tags == result.tag_positions
        IN /\ Len(tags) <= Len(segs)
           /\ Len(segs) <= Len(tags) + 1
           /\ \A i \in 1..Len(tags) :
                 i <= Len(segs) =>
                    /\ segs[i] = RunAt(call.text, tags, i - 1)
                    /\ tags[i][1] = (IF i = 1 THEN 0 ELSE tags[i - 1][2])
                                    + Len(segs[i])
           /\ Len(segs) = Len(tags) + 1 =>
                 /\ segs[Len(segs)] = RunAt(call.text, tags, Len(tags))
                 /\ segs[Len(segs)] # << >>
           /\ Len(segs) = Len(tags) =>
                 RunAt(call.text, tags, Len(tags)) = << >>

\* C16 observation: the extraction of '<i>a' has returned one segment, 'a',
\* and one tag span at position 0: no segment stands before the tag.
C16_Witness ==
    /\ Returned("extract")
    /\ call.text = <<"<", "i", ">", "a">>
    /\ result.text_segments = << <<"a">> >>
    /\ result.tag_positions = << <<0, 3, <<"<", "i", ">">> >> >>

\* C17: budget carried across segments: with ignore_tags = true, no exclude
\* pattern and max_replacements = n > 0, the cap applied to segment k is n
\* minus the number of replacements actually made in the segments before k;
\* hence a segment with fewer matches than the remaining budget does not
\* exhaust it, and when the segments together hold at least n matches exactly
\* the leftmost n of them are replaced.
C17_BudgetAcrossSegments ==
    (/\ Returned("replace") /\ ~result.err
     /\ call.ignore_tags /\ call.exclude_pattern = ""
     /\ call.max_replacements > 0) =>
        LET n == call.max_replacements
            segs == _extract_text_segments(call.text).text_segments
            alts == PatternTable[call.pattern]
            items == TemplateItems(DollarToBackslash(call.replacement), 0)
            cap(i) == n - EligibleBefore(segs, i, call.pattern, "")
        IN /\ Len(result.text_segments) = Len(segs)
           /\ \A i \in 1..Len(segs) :
                 LET ms == finditer(alts, segs[i])
                     upto == IF cap(i) <= 0 THEN 0
                             ELSE IF cap(i) < Len(ms) THEN cap(i) ELSE Len(ms)
                 IN result.text_segments[i] =
                        Spliced(segs[i], ms, 1, upto, 0, items, alts)
           /\ SumMatches(segs, 1, call.pattern) >= n => result.performed = n

\* C17 observation: a replace with max_replacements = 1 has returned for
\* 'b<i>a': the first segment holds no match, the second holds one, and
\* the second segment was left as it was.
C17_Witness ==
    /\ Returned("replace")
    /\ call.ignore_tags /\ call.exclude_pattern = ""
    /\ call.max_replacements = 1
    /\ call.text = <<"b", "<", "i", ">", "a">>
    /\ call.pattern = "a"
    /\ call.replacement = <<"x">>
    /\ result.text_segments = << <<"b">>, <<"a">> >>
    /\ result.performed = 0

RECURSIVE Rebuilt(_, _, _, _, _, _, _, _, _)
\* The segment seg from position last on, rebuilt in one pass over its
\* matches ms from the k-th on: a match the exclude pattern matches at its
\* start is copied; any other match is replaced, while made < max_count or
\* max_count = 0, by the substituted form of its own text, and copied after
\* that; the text between and after the matches is copied.
Rebuilt(seg, ms, k, last, max_count, made, alts, items, exclude_pattern) ==
    IF k > Len(ms) THEN SliceFrom(seg, last)
    ELSE LET matched_text == Group0(seg, ms[k])
             inner == finditer(alts, matched_text)
         IN IF \/ ExcludeMatchesAtStart(exclude_pattern, matched_text)
               \/ (max_count > 0 /\ made >= max_count)
            THEN Slice(seg, last, ms[k].end)
                 \o Rebuilt(seg, ms, k + 1, ms[k].end, max_count, made, alts,
                            items, exclude_pattern)
            ELSE Slice(seg, last, ms[k].start)
                 \o Spliced(matched_text, inner, 1, Len(inner), 0, items, alts)
                 \o Rebuilt(seg, ms, k + 1, ms[k].end, max_count, made + 1,
                            alts, items, exclude_pattern)

\* C18: exclude-aware rebuild: _replace_with_exclude rebuilds the segment in
\* one left-to-right pass in which (a) every match vetoed by the exclude
\* pattern is copied unchanged and consumes no budget, (b) every other match,
\* while under budget, is replaced by the substituted form of just that
\* matched text and adds one to the count, (c) every other match once the
\* budget is used up is copied unchanged, and (d) all text between and after
\* the matches is copied unchanged, in its order.
C18_ExcludeAwareRebuild ==
    (/\ Returned("replace") /\ ~result.err
     /\ call.ignore_tags /\ call.exclude_pattern # ""
     /\ CompileError(call.exclude_pattern) = "") =>
        LET n == call.max_replacements
            segs == _extract_text_segments(call.text).text_segments
            alts == PatternTable[call.pattern]
            items == TemplateItems(DollarToBackslash(call.replacement), 0)
            before(i) == EligibleBefore(segs, i, call.pattern, call.exclude_pattern)
            total == SumEligible(segs, 1, call.pattern, call.exclude_pattern)
        IN /\ Len(result.text_segments) = Len(segs)
           /\ \A i \in 1..Len(segs) :
                 result.text_segments[i] =
                     IF n > 0 /\ before(i) >= n THEN segs[i]
                     ELSE Rebuilt(segs[i], finditer(alts, segs[i]), 1, 0,
                                  IF n > 0 THEN n - before(i) ELSE 0, 0,
                                  alts, items, call.exclude_pattern)
           /\ result.count = (IF n > 0 /\ n < total THEN n ELSE total)
           /\ result.count = result.performed

\* C18 witness: a replace of \d+ with the year exclude pattern and a budget
\* of 1 has returned for 'in 1999 there were 42 items': 1999 was vetoed and
\* copied without using the budget, 42 was replaced, the rest copied.
C18_Witness ==
    /\ Returned("replace")
    /\ call.ignore_tags
    /\ call.text = TextOf1999
    /\ call.pattern = "\\d+"
    /\ call.exclude_pattern = "19\\d{2}|20\\d{2}"
    /\ call.replacement = <<"x">>
    /\ call.max_replacements = 1
    /\ result.count = 1
    /\ result.new_text =
           <<"i", "n", " ", "1", "9", "9", "9", " ", "t", "h", "e", "r", "e",
             " ", "w", "e", "r", "e", " ", "x", " ", "i", "t", "e", "m", "s">>

\* The exclude test is anchored at offset 0 of the matched text, in
\* find_in_text and in the calls of replace_in_text whose ignore_tags is in
\* modes: the matches found are those of the scan whatever the exclude
\* pattern; find drops, and replace (max_replacements = 0) copies, exactly
\* those whose matched text has a prefix the exclude pattern matches.
ExcludeAnchored(modes) ==
    (/\ result.done
     /\ call.exclude_pattern # ""
     /\ CompileError(call.pattern) = ""
     /\ CompileError(call.exclude_pattern) = "") =>
        LET alts == PatternTable[call.pattern]
            scanned == Scanned(call.text, call.ignore_tags)
            segs == _extract_text_segments(call.text).text_segments
            items == TemplateItems(DollarToBackslash(call.replacement), 0)
        IN /\ call.op = "find" =>
                 LET kept == NotExcluded(finditer(alts, scanned), 1, scanned,
                                         call.exclude_pattern)
                 IN /\ Len(result.matches) = Len(kept)
                    /\ \A k \in 1..Len(kept) :
                          result.matches[k][3] = Group0(scanned, kept[k])
           /\ (/\ call.op = "replace" /\ ~result.err
               /\ call.max_replacements = 0
               /\ call.ignore_tags \in modes) =>
                 IF call.ignore_tags
                 THEN \A i \in 1..Len(segs) :
                         result.text_segments[i] =
                             Rebuilt(segs[i], finditer(alts, segs[i]), 1, 0, 0, 0,
                                     alts, items, call.exclude_pattern)
                 ELSE result.new_text =
                          Rebuilt(call.text, finditer(alts, call.text), 1, 0, 0, 0,
                                  alts, items, call.exclude_pattern)
           /\ (/\ call.op = "find" /\ call.pattern = "\\w+"
               /\ call.exclude_pattern = "b"
               /\ call.text \in { <<"a", "b">>, <<"b", "a">> }) =>
                 result.matches =
                     IF call.text = <<"a", "b">>
                     THEN << <<0, 2, <<"a", "b">> >> >> ELSE << >>

\* C19 as stated: the exclude test is an anchored match at offset 0 of the
\* already-found matched text, not a search and not a re-scan: in both find
\* and replace a match is vetoed if and only if the exclude pattern matches a
\* prefix of its matched text; an exclude occurrence only at a later offset
\* inside the match, or only in the surrounding text, never vetoes it, and
\* vetoing one match never changes which other matches are found.
C19_AnchoredExcludeEveryReplace == ExcludeAnchored(BOOLEAN)

\* The part of C19 that holds: the same, for find_in_text in both modes and
\* for replace_in_text with ignore_tags = true.
AnchoredExcludeWhereApplied == ExcludeAnchored({TRUE})

\* C19 observation: a replace with ignore_tags = false has returned for 'a'
\* with pattern a and exclude pattern a: the match, whose text the exclude
\* pattern matches at offset 0, was replaced all the same.
C19_Witness ==
    /\ Returned("replace")
    /\ ~call.ignore_tags
    /\ call.text = <<"a">>
    /\ call.pattern = "a"
    /\ call.exclude_pattern = "a"
    /\ call.replacement = <<"x">>
    /\ call.max_replacements = 0
    /\ ExcludeMatchesAtStart(call.exclude_pattern, call.text)
    /\ result.new_text = <<"x">>
    /\ result.count = 1

\* C20: the tag spans extraction returns are in strictly increasing position
\* order and pairwise disjoint, each satisfies 0 <= start < end <= len(text),
\* and its literal equals text[start:end] verbatim (no normalization).
C20_TagSpansOrdered ==
    Returned("extract") =>
        LET tags == result.tag_positions
        IN /\ \A i \in 1..Len(tags) :
                 /\ 0 <= tags[i][1]
                 /\ tags[i][1] < tags[i][2]
                 /\ tags[i][2] <= Len(call.text)
                 /\ Len(tags[i][3]) = tags[i][2] - tags[i][1]
                 /\ \A k \in 1..Len(tags[i][3]) :
                       tags[i][3][k] = call.text[tags[i][1] + k]
           /\ \A i \in 1..Len(tags) : \A j \in 1..Len(tags) :
                 i < j => /\ tags[i][1] < tags[j][1]
                          /\ tags[i][2] <= tags[j][1]

\* C20 witness: the extraction of '<i><i>a' has returned two adjacent tag
\* spans, the second beginning where the first ends.
C20_Witness ==
    /\ Returned("extract")
    /\ call.text = <<"<", "i", ">", "<", "i", ">", "a">>
    /\ result.tag_positions =
           << <<0, 3, <<"<", "i", ">">> >>, <<3, 6, <<"<", "i", ">">> >> >>

\* The "<" at position p of text has no later ">" before the next "<".
StrayLt(text, p) ==
    /\ HasAt(text, p, <<"<">>)
    /\ ~\E j \in (p + 1)..(Len(text) - 1) :
           /\ text[j + 1] = ">"
           /\ \A k \in (p + 1)..(j - 1) : text[k + 1] # "<"

\* The "&lt;" at position p of text has no "&gt;" after it.
StrayEscapedLt(text, p) ==
    /\ HasAt(text, p, <<"&", "l", "t", ";">>)
    /\ ~\E j \in (p + 4)..(Len(text) - 1) : HasAt(text, j, <<"&", "g", "t", ";">>)

\* text has no ">" and no "&gt;": nothing in it can close a tag.
NothingCloses(text) ==
    \A j \in 0..(Len(text) - 1) :
        text[j + 1] # ">" /\ ~HasAt(text, j, <<"g", "t", ";">>)

\* The tag spans that cover position p.
Covering(tag_positions, p) ==
    {i \in 1..Len(tag_positions) :
        tag_positions[i][1] <= p /\ p < tag_positions[i][2]}

\* C21 as stated: unclosed or stray brackets are not an error and not a tag: a
\* "<" with no later ">" before the next "<" (and likewise an "&lt;" with no
\* closing "&gt;") is covered by no tag span and stays in a text segment; a
\* text with no complete tag yields zero tag spans and one segment equal to
\* the whole text.
C21_StrayBracketsAreText ==
    Returned("extract") =>
        /\ \A p \in 0..(Len(call.text) - 1) :
              (StrayLt(call.text, p) \/ StrayEscapedLt(call.text, p)) =>
                  Covering(result.tag_positions, p) = {}
        /\ (NothingCloses(call.text) /\ call.text # << >>) =>
              /\ result.tag_positions = << >>
              /\ result.text_segments = <<call.text>>

\* C21 amended: a stray "<" or "&lt;" never begins a tag span, and it is
\* covered by a tag span only when it lies inside a complete tag of another
\* form (the "<" of '&lt;a<b&gt;' is part of the escaped tag); otherwise it
\* stays in a text segment.  A text in which nothing closes a tag yields zero
\* tag spans and, unless it is empty, one segment equal to the whole text; the
\* empty text yields no segment.
C21_StrayBracketsNoTagStart ==
    Returned("extract") =>
        LET tags == result.tag_positions
        IN /\ \A p \in 0..(Len(call.text) - 1) :
                 /\ StrayLt(call.text, p) =>
                       \A i \in Covering(tags, p) :
                           tags[i][1] < p /\ tags[i][3][1] = "&"
                 /\ StrayEscapedLt(call.text, p) =>
                       \A i \in Covering(tags, p) :
                           tags[i][1] < p /\ tags[i][3][1] = "<"
           /\ NothingCloses(call.text) =>
                 /\ tags = << >>
                 /\ result.text_segments =
                        IF call.text = << >> THEN << >> ELSE <<call.text>>

\* C21 witness: the extraction of 'a<b' has returned no tag span and the
\* whole text, stray "<" included, as its one segment.
C21_Witness ==
    /\ Returned("extract")
    /\ call.text = <<"a", "<", "b">>
    /\ StrayLt(call.text, 1)
    /\ result.tag_positions = << >>
    /\ result.text_segments = << <<"a", "<", "b">> >>

\* ------------------------------------------------------------------------
\* The command line (cli.py): one run of a command
\*
\* call holds the command and its arguments; result holds the position of
\* the run (pc, the check i and the translation unit t in hand) and what
\* has happened so far: the outcome of create_backup, the patterns
\* validate_pattern has accepted and those it has refused, the engine
\* calls made, the target texts,
\* whether parser.save wrote and whether it wrote over the input file, and
\* the return code (-1: still running).
\* ------------------------------------------------------------------------

MaxChecks == 2

\* The checks of a QA profile, or the pattern, exclude pattern and
\* replacement given on the command line.
CliChecks ==
    { [pattern |-> p, exclude_pattern |-> e, replacement |-> <<"x">>] :
        p \in {"a", "a{2,1}"}, e \in {"", "b", "(a"} }

\* The lists of at most n checks.
CheckLists(n) == UNION { [1..k -> CliChecks] : k \in 1..n }

\* The target texts of the translation units of the file.
TransUnits == << <<"a">>, << >>, <<"b", "a">> >>

SingleCommands == {"find", "replace", "patterns-apply"}
BatchCommands == {"batch-find", "batch-replace"}
FindCommands == {"find", "batch-find"}
ReplaceCommands == {"replace", "patterns-apply", "batch-replace"}

\* The runs: include_tags and exclude exist for find and replace only,
\* no_backup and output for the replacing commands only; "patterns apply"
\* hands replace_command arguments without exclude and with include_tags
\* False; apply-edits takes no pattern.
CliRuns ==
    { r \in [cmd : SingleCommands \cup BatchCommands,
             checks : CheckLists(MaxChecks), include_tags : BOOLEAN,
             no_backup : BOOLEAN, output : BOOLEAN] :
        /\ r.cmd \in SingleCommands => Len(r.checks) = 1
        /\ r.cmd \notin {"find", "replace"} => ~r.include_tags
        /\ r.cmd = "patterns-apply" => r.checks[1].exclude_pattern = ""
        /\ r.cmd \in FindCommands => ~r.no_backup /\ ~r.output }
    \cup
    { [cmd |-> "apply-edits", checks |-> << >>, include_tags |-> FALSE,
       no_backup |-> FALSE, output |-> FALSE] }

\* Where a command starts: replace_command and batch_replace_command
\* create the backup first unless --no-backup is given; the others parse.
StartPc(run) ==
    IF run.cmd \in ReplaceCommands /\ ~run.no_backup THEN "backup"
    ELSE "parse"

CliStart(run) ==
    [pc |-> StartPc(run), i |-> 1, t |-> 1, backup |-> "none",
     validated |-> {}, rejected |-> {}, calls |-> << >>,
     targets |-> TransUnits,
     total |-> 0, saved |-> FALSE, overwritten |-> FALSE, ret |-> -1]

CliInit ==
    /\ regex_module = "regex"
    /\ matches = << >>
    /\ call \in CliRuns
    /\ result = CliStart(call)

\* The run has ended with return code code.
Ended(code) == [result EXCEPT !.pc = "done", !.ret = code]

\* After the loop over the checks: the replacing commands go on to save,
\* the finding commands return 0.
AfterChecks(res) ==
    IF call.cmd \in ReplaceCommands THEN [res EXCEPT !.pc = "save"]
    ELSE [res EXCEPT !.pc = "done", !.ret = 0]

\* The next check of the loop, or the end of the loop.
NextCheck(res) ==
    IF res.i < Len(call.checks)
    THEN [res EXCEPT !.pc = "validate", !.i = res.i + 1, !.t = 1]
    ELSE AfterChecks(res)

\* The next translation unit of the loop, or the next check.
NextUnit(res) ==
    IF res.t < Len(res.targets) THEN [res EXCEPT !.t = res.t + 1]
    ELSE NextCheck(res)

\* BackupManager.create_backup returns the path of the copy, or None when
\* the file is missing or the copy fails; the commands print the outcome
\* and go on either way.
CliCreateBackup ==
    /\ result.pc = "backup"
    /\ \E copied \in BOOLEAN :
        result' = [result EXCEPT
                     !.backup = IF copied THEN "ok" ELSE "failed",
                     !.pc = IF call.cmd = "apply-edits" THEN "save"
                            ELSE "parse"]
    /\ UNCHANGED <<regex_module, matches, call>>

\* parser.parse(): the command returns 1 when it fails; apply-edits
\* creates its backup after parsing.
CliParse ==
    /\ result.pc = "parse"
    /\ \E parsed \in BOOLEAN :
        result' = IF ~parsed THEN Ended(1)
                  ELSE IF call.cmd = "apply-edits"
                       THEN [result EXCEPT !.pc = "backup"]
                       ELSE [result EXCEPT !.pc = "validate"]
    /\ UNCHANGED <<regex_module, matches, call>>

\* Variant of Refused: a refused pattern is used all the same.
RefusedUsed(res) ==
    [res EXCEPT !.pc = "engine", !.t = 1,
                !.rejected = @ \cup {call.checks[res.i].pattern}]

\* The pattern of the check in hand was refused: a single-pattern command
\* returns 1, a batch command continues with the next check.
Refused(res) ==
    IF call.cmd \in BatchCommands
    THEN NextCheck([res EXCEPT
                      !.rejected = @ \cup {call.checks[res.i].pattern}])
    ELSE [res EXCEPT !.pc = "done", !.ret = 1,
                     !.rejected = @ \cup {call.checks[res.i].pattern}]

\* validate_pattern on the pattern of the check in hand, before the loop
\* over the translation units.
CliValidate ==
    /\ result.pc = "validate"
    /\ result' =
         IF validate_pattern(call.checks[result.i].pattern)[1]
         THEN [result EXCEPT
                 !.pc = "engine", !.t = 1,
                 !.validated = @ \cup {call.checks[result.i].pattern}]
         ELSE Refused(result)
    /\ UNCHANGED <<regex_module, matches, call>>

\* The engine call a command makes for the check in hand.
EngineCall(op) ==
    [op |-> op, pattern |-> call.checks[result.i].pattern,
     exclude_pattern |-> call.checks[result.i].exclude_pattern]

\* The matches of one find_in_text call counted in the run.
Found(ms) ==
    [result EXCEPT !.calls = Append(@, EngineCall("find")),
                   !.total = @ + Len(ms)]

\* One turn of the loop over the translation units in find_command and
\* batch_find_command: find_in_text on a non-empty target text.
CliFind ==
    /\ result.pc = "engine"
    /\ call.cmd \in FindCommands
    /\ result' =
         IF result.targets[result.t] = << >> THEN NextUnit(result)
         ELSE NextUnit(Found(
                find_in_text(result.targets[result.t],
                             call.checks[result.i].pattern,
                             ~call.include_tags,
                             call.checks[result.i].exclude_pattern)))
    /\ UNCHANGED <<regex_module, matches, call>>

\* The result of one replace_in_text call stored in the run: the target
\* text is set and the total raised only when the count is positive.
Replaced(r) ==
    [result EXCEPT
       !.calls = Append(@, EngineCall("replace")),
       !.targets[result.t] = IF r.count > 0 THEN r.new_text ELSE @,
       !.total = IF r.count > 0 THEN @ + r.count ELSE @]

\* One turn of the loop over the translation units in replace_command and
\* batch_replace_command: replace_in_text on a non-empty target text.
CliReplace ==
    /\ result.pc = "engine"
    /\ call.cmd \in ReplaceCommands
    /\ result' =
         IF result.targets[result.t] = << >> THEN NextUnit(result)
         ELSE NextUnit(Replaced(
                replace_in_text(result.targets[result.t],
                                call.checks[result.i].pattern,
                                call.checks[result.i].replacement,
                                ~call.include_tags, 0,
                                call.checks[result.i].exclude_pattern)))
    /\ UNCHANGED <<regex_module, matches, call>>

\* The target texts after apply_edits_command has set the edited ones.
Edited(targets) == [targets EXCEPT ![1] = <<"b">>]

\* The file written: the replacing commands save only when something was
\* replaced, to --output if given and else over the input file;
\* apply-edits sets the edited targets and always saves over the input
\* file.
CliSave ==
    /\ result.pc = "save"
    /\ IF call.cmd # "apply-edits" /\ result.total = 0
       THEN result' = Ended(0)
       ELSE \E written \in BOOLEAN :
              result' = [result EXCEPT
                           !.pc = "done",
                           !.targets = IF call.cmd = "apply-edits"
                                       THEN Edited(@) ELSE @,
                           !.saved = written,
                           !.overwritten = written /\ ~call.output,
                           !.ret = IF written THEN 0 ELSE 1]
    /\ UNCHANGED <<regex_module, matches, call>>

CliNext ==
    \/ CliCreateBackup
    \/ CliParse
    \/ CliValidate
    \/ CliFind
    \/ CliReplace
    \/ CliSave

CliSpec == CliInit /\ [][CliNext]_vars

\* ------------------------------------------------------------------------
\* Properties of the command line (CliSpec)
\* ------------------------------------------------------------------------

RECURSIVE CallsDue(_, _, _)
\* The engine calls a finished batch run owes: for each check from j on
\* whose pattern compiles, one call for every non-empty target text.
CallsDue(op, checks, j) ==
    IF j > Len(checks) THEN << >>
    ELSE (IF compile(checks[j].pattern).ok
          THEN [k \in 1..Cardinality({t \in 1..Len(TransUnits) :
                                        TransUnits[t] # << >>}) |->
                  [op |-> op, pattern |-> checks[j].pattern,
                   exclude_pattern |-> checks[j].exclude_pattern]]
          ELSE << >>)
         \o CallsDue(op, checks, j + 1)

\* C22: in find, replace, batch-find, batch-replace and patterns apply,
\* every find_in_text / replace_in_text call carries a pattern that
\* validate_pattern has accepted before; once validate_pattern has refused
\* the pattern of a single-pattern command the run has returned 1 with no
\* engine call and nothing saved; a batch command whose loop over the checks
\* is over has made exactly the calls of the checks whose pattern is valid,
\* the checks after an invalid one included.
C22_ValidateBeforeUse ==
    /\ \A k \in 1..Len(result.calls) :
          /\ result.calls[k].pattern \in result.validated
          /\ compile(result.calls[k].pattern).ok
    /\ (call.cmd \in SingleCommands /\ result.rejected # {}) =>
          /\ result.pc = "done"
          /\ result.ret = 1
          /\ result.calls = << >>
          /\ ~result.saved
    /\ (call.cmd \in BatchCommands /\ result.pc \in {"save", "done"}
        /\ result.validated \cup result.rejected # {}) =>
          result.calls =
            CallsDue(IF call.cmd = "batch-find" THEN "find" ELSE "replace",
                     call.checks, 1)

\* A batch-replace run whose first check was refused and whose second check
\* ran and was saved.
C22_Witness ==
    /\ call.cmd = "batch-replace"
    /\ Len(call.checks) = 2
    /\ call.checks[1].pattern = "a{2,1}"
    /\ call.checks[2].pattern = "a"
    /\ result.pc = "done"
    /\ result.rejected = {"a{2,1}"}
    /\ Len(result.calls) = 2
    /\ result.saved

\* C23: every find_in_text / replace_in_text call that carries an exclude
\* pattern carries one that validate_pattern has accepted before, so no call
\* carries an exclude pattern that does not compile.
C23_ExcludeValidatedFirst ==
    \A k \in 1..Len(result.calls) :
        result.calls[k].exclude_pattern # "" =>
            /\ result.calls[k].exclude_pattern \in result.validated
            /\ compile(result.calls[k].exclude_pattern).ok

\* find with --exclude "(a": find_in_text has been called with the exclude
\* pattern that does not compile, and the command returns 0.
C23_Witness ==
    /\ call.cmd = "find"
    /\ call.checks[1].exclude_pattern = "(a"
    /\ ~compile("(a").ok
    /\ result.pc = "done"
    /\ result.ret = 0
    /\ \E k \in 1..Len(result.calls) : result.calls[k].exclude_pattern = "(a"

\* C25: in replace, batch-replace and apply-edits (patterns apply runs
\* replace), without --no-backup, parser.save has written over the input file
\* only if create_backup produced a backup copy before.
C25_BackupBeforeOverwrite ==
    (result.overwritten /\ ~call.no_backup
     /\ call.cmd \in ReplaceCommands \cup {"apply-edits"}) =>
        result.backup = "ok"

\* A replace run without --no-backup and without --output whose backup
\* failed and whose save wrote over the input file.
C25_Witness ==
    /\ call.cmd = "replace"
    /\ ~call.no_backup
    /\ ~call.output
    /\ result.backup = "failed"
    /\ result.overwritten
    /\ result.ret = 0

\* ------------------------------------------------------------------------
\* Properties of the engine (Spec), continued
\* ------------------------------------------------------------------------

\* The successive matches ms (start, end, text) advance: each begins where
\* the one before ended or later, and two matches that begin at the same
\* position are an empty one followed by a longer one.
ScanAdvances(ms) ==
    \A k \in 1..(Len(ms) - 1) :
        /\ ms[k][2] <= ms[k + 1][1]
        /\ \/ ms[k][1] < ms[k + 1][1]
           \/ ms[k][2] < ms[k + 1][2]

\* The largest number of matches a scan is allowed on the strings parts,
\* each scanned on its own, when a string of length L is allowed
\* perLength * L + 1.
ScanLimit(parts, perLength) == perLength * SumLen(parts, 1) + Len(parts)

\* The strings replace_in_text scans: the text segments, or the text itself.
ScannedParts(text, ignore_tags) ==
    IF ignore_tags THEN _extract_text_segments(text).text_segments
    ELSE <<text>>

\* find_in_text returns at most perLength * L + 1 matches for a scanned
\* string of length L, and replace_in_text replaces at most that many
\* matches in each string it scans.
MatchesWithin(perLength) ==
    /\ Returned("find") =>
          Len(result.matches) <=
              ScanLimit(<<Scanned(call.text, call.ignore_tags)>>, perLength)
    /\ Returned("replace") =>
          result.performed <=
              ScanLimit(ScannedParts(call.text, call.ignore_tags), perLength)

\* C24 as stated: find_in_text and replace_in_text return for every text and
\* every valid pattern, also one that matches the empty string, the scan
\* advancing after every match, and a scanned string of length L yields at
\* most L + 1 matches.
C24_AtMostLPlusOneMatches ==
    /\ (Returned("find") /\ ~call.ignore_tags) => ScanAdvances(result.matches)
    /\ MatchesWithin(1)

\* C24, amended: the scan advances after every match (an empty match may be
\* followed by a longer match at the same position, never by another empty
\* one), so a scanned string of length L yields at most 2 * L + 1 matches.
C24_ScanAdvancesAndIsBounded ==
    /\ (Returned("find") /\ ~call.ignore_tags) => ScanAdvances(result.matches)
    /\ MatchesWithin(2)

\* find_in_text with the pattern "|a", which matches the empty string, on
\* "aa": five matches, an empty one at each of the positions 0, 1, 2 and "a"
\* at 0 and at 1.
C24_Witness ==
    /\ Returned("find")
    /\ call.pattern = "|a"
    /\ call.exclude_pattern = ""
    /\ call.text = <<"a", "a">>
    /\ Len(result.matches) = 2 * Len(call.text) + 1
    /\ result.matches[1] = <<0, 0, << >> >>
    /\ result.matches[2] = <<0, 1, <<"a">> >>

\* The characters of text at the positions start..end-1 that no tag span
\* covers.
Uncovered(text, tag_positions, start, end) ==
    LET ps == SelectSeq([k \in 1..(end - start) |-> start + k - 1],
                        LAMBDA p : Covering(tag_positions, p) = {})
    IN [k \in 1..Len(ps) |-> text[ps[k] + 1]]

\* C26: every match (start, end, text) that find_in_text returns with
\* ignore_tags = true has start and end in the original string, and the
\* characters of original[start:end] outside the tag spans are exactly text,
\* also when the original starts with a tag or has adjacent tags.
C26_SpanTextCorrespondence ==
    (Returned("find") /\ call.ignore_tags) =>
        \A k \in 1..Len(result.matches) :
            /\ 0 <= result.matches[k][1]
            /\ result.matches[k][1] <= result.matches[k][2]
            /\ result.matches[k][2] <= Len(call.text)
            /\ Uncovered(call.text,
                         _extract_text_segments(call.text).tag_positions,
                         result.matches[k][1], result.matches[k][2])
               = result.matches[k][3]

\* find_in_text("<i>a", "a") returns the match "a" with the span 0..1, which
\* lies inside the tag.
C26_Witness ==
    /\ Returned("find")
    /\ call.ignore_tags
    /\ call.text = <<"<", "i", ">", "a">>
    /\ call.pattern = "a"
    /\ call.exclude_pattern = ""
    /\ result.matches = << <<0, 1, <<"a">> >> >>

\* The position mapping of the extraction ex of a text.
MapOf(ex, p) == _map_to_original_position(p, ex.text_segments, ex.tag_positions)

\* For the extraction ex of text the mapping of plain positions is monotone
\* and bounded: p <= map(p) <= map(q) <= len(text) for all
\* 0 <= p <= q <= len(plain view).
MonotoneBounded(text, ex) ==
    \A q \in 0..Len(Join(ex.text_segments)) :
        \A p \in 0..q :
            /\ p <= MapOf(ex, p)
            /\ MapOf(ex, p) <= MapOf(ex, q)
            /\ MapOf(ex, q) <= Len(text)

\* C27: the position mapping is monotone and bounded for the segments and tag
\* spans extracted from any text; the matches find_in_text returns with
\* ignore_tags = true have start <= end, lie within the original string,
\* appear in non-decreasing start order, and none begins before the one
\* before it ends.
C27_MappingMonotoneBounded ==
    /\ Returned("extract") =>
          MonotoneBounded(call.text,
                          [text_segments |-> result.text_segments,
                           tag_positions |-> result.tag_positions])
    /\ (Returned("find") /\ call.ignore_tags) =>
          /\ MonotoneBounded(call.text, _extract_text_segments(call.text))
          /\ \A k \in 1..Len(result.matches) :
                /\ 0 <= result.matches[k][1]
                /\ result.matches[k][1] <= result.matches[k][2]
                /\ result.matches[k][2] <= Len(call.text)
          /\ \A k \in 1..(Len(result.matches) - 1) :
                /\ result.matches[k][1] <= result.matches[k + 1][1]
                /\ result.matches[k][2] <= result.matches[k + 1][1]

\* find_in_text("a<i>a", "a"): two matches, one on either side of the tag;
\* the second begins where the first ends and ends past the tag.
C27_Witness ==
    /\ Returned("find")
    /\ call.ignore_tags
    /\ call.text = <<"a", "<", "i", ">", "a">>
    /\ call.pattern = "a"
    /\ call.exclude_pattern = ""
    /\ result.matches = << <<0, 1, <<"a">> >>, <<1, 5, <<"a">> >> >>

\* C28: whenever a regex error occurs inside replace_in_text (the pattern or
\* the exclude pattern does not compile, or the template refers to a group
\* the pattern does not have) the call returns exactly its input text and
\* the count 0, never a partly substituted text; whenever one occurs inside
\* find_in_text the call returns the empty list.
C28_AllOrNothingOnError ==
    /\ (Returned("replace") /\ result.err) =>
          /\ result.new_text = call.text
          /\ result.count = 0
    /\ (Returned("find")
        /\ FindRaises(Scanned(call.text, call.ignore_tags), call.pattern,
                      call.exclude_pattern)) =>
          result.matches = << >>

\* replace_in_text on "<i>a" with the pattern "a" and the template "$1",
\* which refers to a group "a" does not have: the error is caught and the
\* text comes back as it was given, tag first.
C28_Witness ==
    /\ Returned("replace")
    /\ call.ignore_tags
    /\ call.text = <<"<", "i", ">", "a">>
    /\ call.pattern = "a"
    /\ call.replacement = <<"$", "1">>
    /\ call.exclude_pattern = ""
    /\ result.err
    /\ result.new_text = call.text
    /\ result.count = 0

\* C29: when the pattern matches in no text segment, or the exclude pattern
\* vetoes every match, replace_in_text with ignore_tags = true returns the
\* count 0 and a new_text identical to the input text, also for texts that
\* start with a tag or have adjacent tags.
C29_NoMatchIdentity ==
    (/\ Returned("replace")
     /\ call.ignore_tags
     /\ compile(call.pattern).ok
     /\ call.exclude_pattern # "" => compile(call.exclude_pattern).ok
     /\ SumEligible(_extract_text_segments(call.text).text_segments, 1,
                    call.pattern, call.exclude_pattern) = 0) =>
        /\ result.count = 0
        /\ result.new_text = call.text

\* replace_in_text on "<i>a" with the pattern "o", which matches nowhere:
\* the count is 0 and the text comes back with the tag moved behind the "a".
C29_Witness ==
    /\ Returned("replace")
    /\ call.ignore_tags
    /\ call.text = <<"<", "i", ">", "a">>
    /\ call.pattern = "o"
    /\ call.replacement = <<"x">>
    /\ call.max_replacements = 0
    /\ result.count = 0
    /\ result.new_text = <<"a", "<", "i", ">">>

\* The exclude pattern vetoes none of the matches of pattern in the segments.
NothingVetoed(segs, pattern, exclude_pattern) ==
    SumEligible(segs, 1, pattern, exclude_pattern)
        = SumEligible(segs, 1, pattern, "")

\* What the call in progress returns when it is made without an exclude
\* pattern.
WithoutExclude ==
    replace_in_text(call.text, call.pattern, call.replacement,
                    call.ignore_tags, call.max_replacements, "")

\* C30: with ignore_tags = true, replace_in_text called with an exclude
\* pattern that matches none of the found matches at its start returns the
\* same (new_text, count) as the same call without an exclude pattern, for
\* max_replacements 0 or positive.
C30_ExcludePathEqualsPlainPath ==
    (/\ Returned("replace")
     /\ call.ignore_tags
     /\ call.exclude_pattern # ""
     /\ compile(call.pattern).ok
     /\ compile(call.exclude_pattern).ok
     /\ NothingVetoed(_extract_text_segments(call.text).text_segments,
                      call.pattern, call.exclude_pattern)) =>
        /\ result.new_text = WithoutExclude.new_text
        /\ result.count = WithoutExclude.count

\* replace_in_text on "a" with the pattern "a*", the template "x" and the
\* exclude pattern "aa", which vetoes neither "a" nor the empty match after
\* it: the call returns "xxx" where the call without exclude pattern returns
\* "xx".
C30_Witness ==
    /\ Returned("replace")
    /\ call.ignore_tags
    /\ call.text = <<"a">>
    /\ call.pattern = "a*"
    /\ call.replacement = <<"x">>
    /\ call.exclude_pattern = "aa"
    /\ call.max_replacements = 0
    /\ result.new_text = <<"x", "x", "x">>
    /\ WithoutExclude.new_text = <<"x", "x">>

====
